---------------------------- MODULE Spec2Model ----------------------------
(***************************************************************************)
(* A model of the fetch-aggregate-export pipeline of the Jira time         *)
(* tracking reporter: the aggregation engine (WorklogProcessor), the       *)
(* parallel fetch orchestrator and report generation (report_generator),   *)
(* the response cache, the pagination loop and the work type classifier    *)
(* of the client (JiraClient), the four exporters, the values of           *)
(* models.py, the network calls of one monthly task, the worker threads    *)
(* that share the cache, and the monthly windows of a year.                *)
(*                                                                         *)
(* Hours are kept as exact integers in units of 1/3600 hour (one second    *)
(* of time spent), so that 36000 stands for 10.0 hours; the rounding of    *)
(* Python floats is not modelled.                                          *)
(***************************************************************************)
EXTENDS Integers, Sequences, FiniteSets, TLC

VARIABLES
    \* ---- WorklogProcessor.process_issues: one call ----
    issues,             \* the list of parsed issues handed to process_issues
    filter_author,      \* the optional author filter (NoFilter when absent)
    entries,            \* the list process_issues returned (<<>> before the call)
    ppc,                \* "input" before the call, "done" after it
    \* ---- report_generator.generate_report: one run ----
    rpc,                \* where generate_report stands
    world,              \* what the tracker holds (a fixture of ServerIssues)
    report_type,        \* the ReportType asked for
    task_status,        \* per (project, month) task: "pending", "ok" or "failed"
    entries_by_month,   \* _fetch_data_parallel: month -> list of entries
    all_entries,        \* _fetch_data_parallel: the flat list
    completed,          \* _fetch_data_parallel: futures handled so far
    auth_seen,          \* whether a request of this run was answered 401 or 403
    result,             \* what generate_report returned ("pending" before)
    report,             \* the monthly_reports of the YearlyReport handed to the exporter
    cause,              \* why generate_report returned what it did
    prev_run,           \* cause and result of the run before this one
    \* ---- JiraClient: the response cache ----
    enable_cache,       \* JiraClient.enable_cache
    cache_files,        \* the cache directory: key -> file, or Absent
    cache_hit_count,    \* JiraClient.cache_hit_count
    cache_miss_count,   \* JiraClient.cache_miss_count
    requests_made,      \* calls of _make_request so far
    last_request,       \* what the last call of _make_request did
    pinned,             \* key -> the file first written since the last clear
    \* ---- JiraClient.get_issues_with_worklog: one call ----
    server,             \* the tracker: its total and its page size
    pg_pc,              \* "loop" inside the while loop, "done" after it
    start_at,           \* the local start_at
    fetched,            \* the local list issues
    page_requests,      \* the page requests made so far
    \* ---- JiraClient._categorize_work_type: one call ----
    issue_fields,       \* the fields payload of the issue
    categorized,        \* the WorkType returned, or "raised" ("pending" before)
    cpc,                \* "input" before the call, "done" after it
    \* ---- WorklogProcessor.aggregate_entries: one call ----
    agg_input,          \* the list of entries handed to aggregate_entries
    agg_output,         \* the values of the dict it returned (<<>> before)
    agg_after,          \* the caller's list after the call (its objects are shared)
    apc,                \* "input" before the call, "done" after it
    \* ---- the exporters: one call of export_yearly ----
    exp_report,         \* the monthly_reports of the YearlyReport to export
    filter_active_only, \* the exporter's filter_active_only
    exporter,           \* the ReportType whose exporter class is used
    csv,                \* the rows written to the CSV file (<<>> before)
    sheets,             \* the authors the workbook holds a sheet or columns for
    xpc,                \* "input" before the call, "done" after it
    \* ---- models.py: one comparison of two values, or one week_number ----
    operands,           \* the two Author or Component values compared, or the day of a worklog
    outcome,            \* what ==, hash() and week_number gave (NoOutcome before)
    mpc,                \* "input" before the call, "done" after it
    \* ---- fetch_month_project_data: one (project, month) task, call by call ----
    tracker_issues,     \* the issues of the month as the tracker holds them
    failing,            \* the kinds of call the network fails while the task runs
    raw_issues,         \* what get_issues_with_worklog returned (<<>> before)
    parsed_issues,      \* the Issue values parse_issue made (<<>> before)
    contribution,       \* the entries the task returned (<<>> before)
    failed_calls,       \* the kinds of call the task made and saw fail
    tpc,                \* "search", "parse", "process", then "done"
    \* ---- worker threads of one client: GETs of one cache key, step by step ----
    server_body,        \* the body the tracker answers the key with
    cache_text,         \* the text of the key's cache file, chunk by chunk, or NoFile
    wpc,                \* per worker: where its _make_request stands
    wcount,             \* per worker: the cache_hit_count it read for its +=
    woffset,            \* per worker: chunks its open file has written
    wreturned,          \* per worker: what _make_request returned (None before)
    wnetwork,           \* per worker: whether it made the network call
    wevents,            \* what happened in the run: a read of a partial file, two writers at once
    \* ---- the monthly tasks of one project over the year, month after month ----
    year_issue,         \* the issue the tracker holds, with the instants of its worklogs
    next_month,         \* the month whose task runs next
    year_entries        \* month -> the entries its task returned (<<>> before)

procVars == <<issues, filter_author, entries, ppc>>

repVars == <<rpc, world, report_type, task_status, entries_by_month, all_entries,
             completed, auth_seen, result, report, cause, prev_run>>

cacheVars == <<enable_cache, cache_files, cache_hit_count, cache_miss_count,
               requests_made, last_request, pinned>>

pageVars == <<server, pg_pc, start_at, fetched, page_requests>>

classVars == <<issue_fields, categorized, cpc>>

aggVars == <<agg_input, agg_output, agg_after, apc>>

expVars == <<exp_report, filter_active_only, exporter, csv, sheets, xpc>>

modVars == <<operands, outcome, mpc>>

taskVars == <<tracker_issues, failing, raw_issues, parsed_issues, contribution, failed_calls, tpc>>

workVars == <<server_body, cache_text, wpc, wcount, woffset, wreturned, wnetwork, wevents>>

yearVars == <<year_issue, next_month, year_entries>>

vars == <<procVars, repVars, cacheVars, pageVars, classVars, aggVars, expVars, modVars, taskVars, workVars, yearVars>>

\* What the steps of one part leave alone: the variables of the other parts.
notProc == <<repVars, cacheVars, pageVars, classVars, aggVars, expVars, modVars, taskVars, workVars, yearVars>>

notRep == <<procVars, cacheVars, pageVars, classVars, aggVars, expVars, modVars, taskVars, workVars, yearVars>>

notCache == <<procVars, repVars, pageVars, classVars, aggVars, expVars, modVars, taskVars, workVars, yearVars>>

notPage == <<procVars, repVars, cacheVars, classVars, aggVars, expVars, modVars, taskVars, workVars, yearVars>>

notClass == <<procVars, repVars, cacheVars, pageVars, aggVars, expVars, modVars, taskVars, workVars, yearVars>>

notAgg == <<procVars, repVars, cacheVars, pageVars, classVars, expVars, modVars, taskVars, workVars, yearVars>>

notExp == <<procVars, repVars, cacheVars, pageVars, classVars, aggVars, modVars, taskVars, workVars, yearVars>>

notMod == <<procVars, repVars, cacheVars, pageVars, classVars, aggVars, expVars, taskVars, workVars, yearVars>>

notTask == <<procVars, repVars, cacheVars, pageVars, classVars, aggVars, expVars, modVars, workVars, yearVars>>

notWork == <<procVars, repVars, cacheVars, pageVars, classVars, aggVars, expVars, modVars, taskVars, yearVars>>

\* What the steps of the worker threads leave alone besides the client's fields.
notCacheWork == <<procVars, repVars, pageVars, classVars, aggVars, expVars, modVars, taskVars, yearVars>>

notYear == <<procVars, repVars, cacheVars, pageVars, classVars, aggVars, expVars, modVars, taskVars, workVars>>

-----------------------------------------------------------------------------
(* Data model: src/src/models.py                                           *)

NoAccountId == "none"

NoFilter == [email |-> "-", display_name |-> "-", account_id |-> "-"]

\* Author values the tracker may return.  a1 and a2 carry the same email and
\* display name, a2 and a3 the same account id.
AuthorA1 == [email |-> "jane@x", display_name |-> "Jane", account_id |-> NoAccountId]

AuthorA2 == [email |-> "jane@x", display_name |-> "Jane", account_id |-> "acc-1"]

AuthorA3 == [email |-> "john@x", display_name |-> "John", account_id |-> "acc-1"]

AuthorA4 == [email |-> "john@x", display_name |-> "John", account_id |-> "acc-2"]

Authors == {AuthorA1, AuthorA2, AuthorA3}

WorkTypes == {"Development", "Maintenance"}

\* Author.__hash__: the account id when there is one, else (email, display_name).
\* The hash of a string and the hash of a tuple are taken to differ.
AuthorHash(a) ==
    IF a.account_id # NoAccountId
    THEN <<"account_id", a.account_id>>
    ELSE <<"email_name", a.email, a.display_name>>

\* Author.__eq__: the account ids when both sides have one, else email and
\* display name.
AuthorEq(a, b) ==
    IF a.account_id # NoAccountId /\ b.account_id # NoAccountId
    THEN a.account_id = b.account_id
    ELSE a.email = b.email /\ a.display_name = b.display_name

\* ProjectComponent.__eq__ / __hash__: (project, component.name).
ProjectComponent(project, component) ==
    [project |-> project, component |-> component]

\* Worklog.hours, in units of 1/3600 hour.
WorklogHours(wl) == wl.time_spent_seconds

\* The aggregation key (project_component, worklog.author, issue.work_type).
EntryKey(e) ==
    [project_component |-> e.project_component, author |-> e.author,
     work_type |-> e.work_type]

\* Equality of two key tuples: element by element with each element's __eq__.
KeyEq(k1, k2) ==
    /\ k1.project_component = k2.project_component
    /\ AuthorEq(k1.author, k2.author)
    /\ k1.work_type = k2.work_type

\* Hash of a key tuple: determined by the hashes of its elements.
KeyHash(k) == <<k.project_component, AuthorHash(k.author), k.work_type>>

\* Two keys address the same slot of a Python dict: equal hashes and __eq__.
SameDictKey(k1, k2) == KeyHash(k1) = KeyHash(k2) /\ KeyEq(k1, k2)

\* An empty week_hours dict.
NoWeeks == [w \in {} |-> 0]

\* A variant that takes the week of the day before.
WeekNumber_OffByOne(day) ==
    LET week == (day \div 7) + 1 IN IF week < 5 THEN week ELSE 5

\* Worklog.week_number: min(((self.started.day - 1) // 7) + 1, 5)
WeekNumber(day) ==
    LET week == ((day - 1) \div 7) + 1 IN IF week < 5 THEN week ELSE 5

\* TimeEntry(project_component, author, hours, work_type, issues=[issue.key]):
\* week_hours is left to its default, an empty dict.
TimeEntry(pc, author, hours, work_type, issue_key) ==
    [project_component |-> pc, author |-> author, hours |-> hours,
     work_type |-> work_type, issues |-> <<issue_key>>, week_hours |-> NoWeeks]

InSeq(x, s) == \E i \in 1..Len(s) : s[i] = x

\* A variant that keeps the hours of the last worklog only.
AddHours_Overwrite(e, hours, issue_key) ==
    [e EXCEPT !.hours = hours,
              !.issues = IF InSeq(issue_key, @) THEN @ ELSE Append(@, issue_key)]

\* TimeEntry.add_hours(hours, issue_key): called without a week, so week is
\* None and week_hours is left as it is.
AddHours(e, hours, issue_key) ==
    [e EXCEPT !.hours = @ + hours,
              !.issues = IF InSeq(issue_key, @) THEN @ ELSE Append(@, issue_key)]

-----------------------------------------------------------------------------
(* WorklogProcessor.process_issues: src/src/processors/worklog_processor.py *)

\* `key in aggregated`: the position of the entry stored under key, 0 if none.
\* The dict is kept as the list of its values in insertion order.
DictFind(aggregated, key) ==
    IF \E i \in 1..Len(aggregated) : SameDictKey(EntryKey(aggregated[i]), key)
    THEN CHOOSE i \in 1..Len(aggregated) : SameDictKey(EntryKey(aggregated[i]), key)
    ELSE 0

\* `filter_author and worklog.author != filter_author` is false
PassesFilter(wl, filter) == filter = NoFilter \/ AuthorEq(wl.author, filter)

\* start_date <= worklog.started <= end_date
InWindow(wl, start_date, end_date) ==
    start_date <= wl.started /\ wl.started <= end_date

\* A variant that divides the hours of a worklog over the components of its issue.
ProcessWorklog_Split(aggregated, pc, issue, wl, start_date, end_date, filter) ==
    IF ~PassesFilter(wl, filter) THEN aggregated
    ELSE IF ~InWindow(wl, start_date, end_date) THEN aggregated
    ELSE LET key == [project_component |-> pc, author |-> wl.author,
                     work_type |-> issue.work_type]
             i == DictFind(aggregated, key)
             share == WorklogHours(wl) \div Len(issue.components)
         IN  IF i # 0
             THEN [aggregated EXCEPT ![i] = AddHours(@, share, issue.key)]
             ELSE Append(aggregated,
                         TimeEntry(pc, wl.author, share, issue.work_type, issue.key))

\* The body of the innermost loop for one worklog of one component of an issue.
ProcessWorklog(aggregated, pc, issue, wl, start_date, end_date, filter) ==
    IF ~PassesFilter(wl, filter) THEN aggregated
    ELSE IF ~InWindow(wl, start_date, end_date) THEN aggregated
    ELSE LET key == [project_component |-> pc, author |-> wl.author,
                     work_type |-> issue.work_type]
             i == DictFind(aggregated, key)
         IN  IF i # 0
             THEN [aggregated EXCEPT ![i] = AddHours(@, WorklogHours(wl), issue.key)]
             ELSE Append(aggregated,
                         TimeEntry(pc, wl.author, WorklogHours(wl),
                                   issue.work_type, issue.key))

RECURSIVE ProcessWorklogs(_, _, _, _, _, _, _)
\* for worklog in issue.worklogs, from the n-th on
ProcessWorklogs(aggregated, pc, issue, n, start_date, end_date, filter) ==
    IF n > Len(issue.worklogs) THEN aggregated
    ELSE ProcessWorklogs(
             ProcessWorklog(aggregated, pc, issue, issue.worklogs[n],
                            start_date, end_date, filter),
             pc, issue, n + 1, start_date, end_date, filter)

RECURSIVE ProcessComponents(_, _, _, _, _, _, _)
\* for component in issue.components, from the n-th on
ProcessComponents(aggregated, project_key, issue, n, start_date, end_date, filter) ==
    IF n > Len(issue.components) THEN aggregated
    ELSE ProcessComponents(
             ProcessWorklogs(aggregated,
                             ProjectComponent(project_key, issue.components[n]),
                             issue, 1, start_date, end_date, filter),
             project_key, issue, n + 1, start_date, end_date, filter)

RECURSIVE ProcessIssuesFrom(_, _, _, _, _, _, _)
\* for issue in issues, from the n-th on
ProcessIssuesFrom(aggregated, iss, project_key, n, start_date, end_date, filter) ==
    IF n > Len(iss) THEN aggregated
    ELSE ProcessIssuesFrom(
             ProcessComponents(aggregated, project_key, iss[n], 1,
                               start_date, end_date, filter),
             iss, project_key, n + 1, start_date, end_date, filter)

\* process_issues(issues, project_key, start_date, end_date, filter_author)
ProcessIssues(iss, project_key, start_date, end_date, filter) ==
    ProcessIssuesFrom(<<>>, iss, project_key, 1, start_date, end_date, filter)


-----------------------------------------------------------------------------
(* Inputs of one call of process_issues                                    *)

\* Most worklogs of the issue of a one-issue input list.
MaxWorklogs == 2

\* time_spent_seconds of the first worklog of an input (10 hours); the n-th
\* worklog of the input has twice the seconds of the one before it, so that a
\* sum of hours tells which worklogs went into it.
BaseSeconds == 36000

ProjectKey == "TEST"

IssueKeys == <<"TEST-1", "TEST-2", "TEST-3">>

ComponentNames == {"Backend", "Frontend"}

\* Component lists of an issue, as parse_issue builds them from the
\* tracker's answer (the components of an issue are distinct).
ComponentLists == {<<"Backend">>, <<"Backend", "Frontend">>}

\* The window [start_date, end_date] and the instants a worklog may have
\* started at: before it, at its first instant, at its last instant, after it.
Window == [start_date |-> 1, end_date |-> 2]

Times == 0..3

FilterChoices == {NoFilter, AuthorA1, AuthorA3}

WorklogChoices == [author : Authors, started : Times]

RECURSIVE Pow2(_)
Pow2(n) == IF n = 0 THEN 1 ELSE 2 * Pow2(n - 1)

\* The Worklog records of one issue: the choices ws, numbered from `first`.
MakeWorklogs(ws, first) ==
    [j \in 1..Len(ws) |->
        [author |-> ws[j].author, started |-> ws[j].started,
         time_spent_seconds |-> BaseSeconds * Pow2(first + j - 2)]]

MakeIssue(n, components, work_type, ws, first) ==
    [key |-> IssueKeys[n], components |-> components, work_type |-> work_type,
     worklogs |-> MakeWorklogs(ws, first)]

\* The input lists: no issue; one issue with at most MaxWorklogs worklogs;
\* two issues with at most one worklog each; three issues with the same
\* components and one worklog each.
ProcInit ==
    /\ \/ issues = <<>>
       \/ \E c \in ComponentLists, t \in WorkTypes, k \in 0..MaxWorklogs :
             \E ws \in [1..k -> WorklogChoices] :
                 issues = <<MakeIssue(1, c, t, ws, 1)>>
       \/ \E c1 \in ComponentLists, t1 \in WorkTypes,
             c2 \in ComponentLists, t2 \in WorkTypes, k1 \in 0..1, k2 \in 0..1 :
             \E ws1 \in [1..k1 -> WorklogChoices], ws2 \in [1..k2 -> WorklogChoices] :
                 issues = <<MakeIssue(1, c1, t1, ws1, 1),
                            MakeIssue(2, c2, t2, ws2, k1 + 1)>>
       \/ \E c \in ComponentLists, ws \in [1..3 -> WorklogChoices] :
             issues = <<MakeIssue(1, c, "Development", <<ws[1]>>, 1),
                        MakeIssue(2, c, "Development", <<ws[2]>>, 2),
                        MakeIssue(3, c, "Development", <<ws[3]>>, 3)>>
    /\ filter_author \in FilterChoices
    /\ entries = <<>>
    /\ ppc = "input"

\* The processor when no call of it is followed.
ProcIdle ==
    /\ issues = <<>>
    /\ filter_author = NoFilter
    /\ entries = <<>>
    /\ ppc = "idle"

\* One call: entries = processor.process_issues(issues, ProjectKey, start, end, filter)
Process ==
    /\ ppc = "input"
    /\ entries' = ProcessIssues(issues, ProjectKey, Window.start_date,
                                Window.end_date, filter_author)
    /\ ppc' = "done"
    /\ UNCHANGED <<issues, filter_author>>
    /\ UNCHANGED notProc

-----------------------------------------------------------------------------
(* WorklogProcessor.aggregate_entries                                       *)

RECURSIVE MergeIssues(_, _)
\* for issue in entry.issues: append it unless it is there already
MergeIssues(into, from) ==
    IF from = <<>> THEN into
    ELSE MergeIssues(IF InSeq(Head(from), into) THEN into ELSE Append(into, Head(from)),
                     Tail(from))

RECURSIVE AggregateFrom(_, _, _)
\* for entry in entries, from the n-th on
AggregateFrom(aggregated, es, n) ==
    IF n > Len(es) THEN aggregated
    ELSE LET e == es[n]
             i == DictFind(aggregated, EntryKey(e))
         IN  AggregateFrom(
                 IF i # 0
                 THEN [aggregated EXCEPT ![i].hours = @ + e.hours,
                                         ![i].issues = MergeIssues(@, e.issues)]
                 ELSE Append(aggregated, e),
                 es, n + 1)

\* aggregate_entries(entries): the values of the dict it returns, in order
AggregateEntries(es) == AggregateFrom(<<>>, es, 1)

-----------------------------------------------------------------------------
(* The tracker as one run of generate_report meets it                       *)

\* config.jira.project_keys
ProjectKeys == <<"P1", "P2">>

\* Months of the year that are modelled (the code runs over range(1, 13)).
MaxMonth == 2

Months == 1..MaxMonth

\* Instants of a month: its first instant, instants within it, 23:59:59 of
\* its last day, and an instant within the last second of its last day.
TicksPerMonth == 4

\* get_month_range(year, month): first instant, and 23:59:59 of the last day
MonthStart(m) == (m - 1) * TicksPerMonth

MonthEnd(m) == m * TicksPerMonth - 2

Tasks == [project : {ProjectKeys[i] : i \in 1..Len(ProjectKeys)}, month : Months]

NumTasks == Len(ProjectKeys) * MaxMonth

ReportTypes == {"yearly", "quarterly", "monthly", "weekly"}

\* preserve_months = report_type != ReportType.YEARLY
PreserveMonths(rt) == rt # "yearly"

\* What the tracker holds: no worklog at all; worklogs of two authors who
\* both carry an account id; worklogs of one person returned once without
\* and once with an account id.
Worlds == {"empty", "plain", "mixed"}

FirstAuthor(w) == IF w = "mixed" THEN AuthorA1 ELSE AuthorA2

SecondAuthor(w) == IF w = "mixed" THEN AuthorA2 ELSE AuthorA4

\* The issues get_issues_with_worklog returns, parsed, for a project and a
\* month: the issues with a worklog dated in the month, each with all of its
\* worklogs.  P1 has one issue per month and one issue worked on in every
\* month; P2 has one issue without components, worked on in month 1.
ServerIssues(w, project, m) ==
    IF w = "empty" THEN <<>>
    ELSE IF project = "P1"
    THEN << [key |-> <<"P1", m>>, components |-> <<"Backend", "Frontend">>,
             work_type |-> "Development",
             worklogs |-> << [author |-> FirstAuthor(w), started |-> MonthStart(m),
                              time_spent_seconds |-> 3600],
                             [author |-> SecondAuthor(w), started |-> MonthEnd(m),
                              time_spent_seconds |-> 7200] >>],
            [key |-> <<"P1", 0>>, components |-> <<"Backend">>,
             work_type |-> "Maintenance",
             worklogs |-> [k \in Months |->
                             [author |-> FirstAuthor(w),
                              started |-> MonthStart(k) + 1,
                              time_spent_seconds |-> 1800]]] >>
    ELSE IF m = 1
    THEN << [key |-> <<"P2", 1>>, components |-> <<>>,
             work_type |-> "Development",
             worklogs |-> << [author |-> SecondAuthor(w), started |-> MonthStart(1) + 1,
                              time_spent_seconds |-> 36000] >>] >>
    ELSE <<>>

\* parse_issue: an issue without components gets the component "Unassigned"
ParseIssue(raw) ==
    [raw EXCEPT !.components = IF @ = <<>> THEN <<"Unassigned">> ELSE @]

\* What the tracker may answer to a request.
HttpAnswers == {"200", "401", "403", "500", "network_error"}

\* How the requests of a task may go: an answer as above, or a 200 answer
\* with a payload that parse_issue cannot read (a worklog without 'started').
TaskAnswers == HttpAnswers \cup {"unreadable"}

\* _make_request: the data, or the error it raises
MakeRequest(answer) ==
    CASE answer \in {"401", "403"} -> "JiraAuthenticationError"
      [] answer \in {"500", "network_error"} -> "JiraAPIError"
      [] OTHER -> "data"

\* JiraAuthenticationError and JiraAPIError are subclasses of JiraClientError
IsJiraClientError(x) == x \in {"JiraAuthenticationError", "JiraAPIError"}

\* How a task ended, for the record: "failed" when a request of it raised a
\* JiraClientError or another exception left fetch_month_project_data.
TaskOutcome(answer) == IF answer = "200" THEN "ok" ELSE "failed"

\* Whether an answer is an HTTP 401 or 403.
IsAuthAnswer(answer) == answer \in {"401", "403"}

\* The entries a task computes when nothing fails.
TaskEntries(w, project, m) ==
    ProcessIssues([i \in 1..Len(ServerIssues(w, project, m)) |->
                       ParseIssue(ServerIssues(w, project, m)[i])],
                  project, MonthStart(m), MonthEnd(m), NoFilter)

\* A variant in which a failed task still hands over what it computed.
FetchMonthProjectData_Leaky(w, project, m, answer) ==
    [raised |-> FALSE, month |-> m, entries |-> TaskEntries(w, project, m)]

\* fetch_month_project_data: (project_key, month, entries), (project_key,
\* month, []) on a JiraClientError; any other exception leaves the function.
FetchMonthProjectData(w, project, m, answer) ==
    IF IsJiraClientError(MakeRequest(answer))
    THEN [raised |-> FALSE, month |-> m, entries |-> <<>>]
    ELSE IF answer = "unreadable"
    THEN [raised |-> TRUE, month |-> m, entries |-> <<>>]
    ELSE [raised |-> FALSE, month |-> m, entries |-> TaskEntries(w, project, m)]

\* A variant that stores the entries of a task instead of appending them.
ExtendMonth_Assign(ebm, m, es) == [ebm EXCEPT ![m] = es]

\* entries_by_month[result_month].extend(entries)
ExtendMonth(ebm, m, es) == [ebm EXCEPT ![m] = @ \o es]

-----------------------------------------------------------------------------
(* generate_report and _fetch_data_parallel: src/src/report_generator.py    *)

NoRun == [cause |-> "-", result |-> "-"]

FreshRun ==
    /\ rpc = "start"
    /\ world \in Worlds
    /\ report_type \in ReportTypes
    /\ task_status = [t \in Tasks |-> "pending"]
    /\ entries_by_month = [m \in Months |-> <<>>]
    /\ all_entries = <<>>
    /\ completed = 0
    /\ auth_seen = FALSE
    /\ result = "pending"
    /\ report = <<>>
    /\ cause = "running"

RepInit == FreshRun /\ prev_run = NoRun

\* The report generator when no run of it is followed.
RepIdle ==
    /\ rpc = "idle"
    /\ world = "empty"
    /\ report_type = "yearly"
    /\ task_status = [t \in Tasks |-> "pending"]
    /\ entries_by_month = [m \in Months |-> <<>>]
    /\ all_entries = <<>>
    /\ completed = 0
    /\ auth_seen = FALSE
    /\ result = "pending"
    /\ report = <<>>
    /\ cause = "idle"
    /\ prev_run = NoRun

\* generate_report returns None
ReturnNone(why) ==
    /\ rpc' = "done"
    /\ result' = "None"
    /\ cause' = why
    /\ UNCHANGED <<world, report_type, task_status, entries_by_month, all_entries,
                   completed, report, prev_run>>

\* _initialize_client_and_processor: client.test_connection() requests
\* "myself"; any JiraClientError makes it False and generate_report returns None.
TestConnection ==
    /\ rpc = "start"
    /\ \E answer \in HttpAnswers :
          /\ auth_seen' = (auth_seen \/ IsAuthAnswer(answer))
          /\ IF IsJiraClientError(MakeRequest(answer))
             THEN ReturnNone("connection_failed")
             ELSE /\ rpc' = "projects"
                  /\ UNCHANGED <<world, report_type, task_status, entries_by_month,
                                 all_entries, completed, result, report, cause,
                                 prev_run>>
    /\ UNCHANGED notRep

\* _get_project_keys: the configured keys, or get_all_projects(), which
\* returns [] on a JiraClientError; without keys generate_report returns None.
GetProjectKeys ==
    /\ rpc = "projects"
    /\ \/ /\ rpc' = "fetch"
          /\ UNCHANGED <<world, report_type, task_status, entries_by_month,
                         all_entries, completed, auth_seen, result, report, cause,
                         prev_run>>
       \/ \E answer \in HttpAnswers :
             /\ auth_seen' = (auth_seen \/ IsAuthAnswer(answer))
             /\ IF IsJiraClientError(MakeRequest(answer))
                THEN ReturnNone("no_projects")
                ELSE /\ rpc' = "fetch"
                     /\ UNCHANGED <<world, report_type, task_status, entries_by_month,
                                    all_entries, completed, result, report, cause,
                                    prev_run>>
    /\ UNCHANGED notRep

\* One future of _fetch_data_parallel completes and the loop over
\* as_completed handles it: the task t has run fetch_month_project_data, and
\* its entries are appended under its month (or to the flat list); a future
\* that raised is logged and adds nothing.  Futures are handled in any order.
CollectResult(t) ==
    /\ rpc = "fetch"
    /\ task_status[t] = "pending"
    /\ \E answer \in TaskAnswers :
          LET r == FetchMonthProjectData(world, t.project, t.month, answer)
          IN  /\ task_status' = [task_status EXCEPT ![t] = TaskOutcome(answer)]
              /\ completed' = completed + 1
              /\ auth_seen' = (auth_seen \/ IsAuthAnswer(answer))
              /\ IF r.raised
                 THEN UNCHANGED <<entries_by_month, all_entries>>
                 ELSE IF PreserveMonths(report_type)
                 THEN /\ entries_by_month' = ExtendMonth(entries_by_month, r.month, r.entries)
                      /\ UNCHANGED all_entries
                 ELSE /\ all_entries' = all_entries \o r.entries
                      /\ UNCHANGED entries_by_month
    /\ UNCHANGED <<rpc, world, report_type, result, report, cause, prev_run>>
    /\ UNCHANGED notRep

\* has_data: any(entries_data.values()) or bool(entries_data)
HasData ==
    IF PreserveMonths(report_type)
    THEN \E m \in Months : entries_by_month[m] # <<>>
    ELSE all_entries # <<>>

\* _create_yearly_report_from_entries: the monthly reports of the year, or
\* the single report of month 1 holding the aggregated entries of the year.
MonthlyReports ==
    IF PreserveMonths(report_type)
    THEN [m \in Months |-> [month |-> m, entries |-> entries_by_month[m]]]
    ELSE << [month |-> 1, entries |-> AggregateEntries(all_entries)] >>

\* After the pool is done: no data gives None, else the report is assembled
\* and exported (a path for the yearly report, a pair of paths otherwise).
FinishRun ==
    /\ rpc = "fetch"
    /\ completed = NumTasks
    /\ IF ~HasData
       THEN ReturnNone("no_data")
       ELSE /\ rpc' = "done"
            /\ report' = MonthlyReports
            /\ result' = IF report_type = "yearly" THEN "csv_path" ELSE "csv_xlsx_paths"
            /\ cause' = "exported"
            /\ UNCHANGED <<world, report_type, task_status, entries_by_month,
                           all_entries, completed, prev_run>>
    /\ UNCHANGED auth_seen
    /\ UNCHANGED notRep

\* generate_report is called once more, after a first run has returned.
NewRun ==
    /\ rpc = "done"
    /\ prev_run = NoRun
    /\ prev_run' = [cause |-> cause, result |-> result]
    /\ rpc' = "start"
    /\ world' \in Worlds
    /\ report_type' \in ReportTypes
    /\ task_status' = [t \in Tasks |-> "pending"]
    /\ entries_by_month' = [m \in Months |-> <<>>]
    /\ all_entries' = <<>>
    /\ completed' = 0
    /\ auth_seen' = FALSE
    /\ result' = "pending"
    /\ report' = <<>>
    /\ cause' = "running"
    /\ UNCHANGED notRep


-----------------------------------------------------------------------------
(* JiraClient: the response cache (src/src/jira_client.py) and             *)
(* scripts/clear_cache.py                                                  *)

\* GET requests a client makes before the model stops it.
MaxRequests == 3

Endpoints == {"myself", "search/jql"}

\* The params argument: None, an empty dict, or a dict with items.
NoParams == [given |-> FALSE, items |-> {}]

ParamsChoices ==
    {NoParams,
     [given |-> TRUE, items |-> {}],
     [given |-> TRUE, items |-> {<<"startAt", 0>>}]}

\* Python's truth value of the params argument: None and {} are false.
Truthy(params) == params.given /\ params.items # {}

\* json.dumps(params, sort_keys=True): the items in key order, so that the
\* result depends on the items only and not on their insertion order.
JsonDumpsSorted(params) == params.items

\* _get_cache_key: the digest of "<endpoint>:<params as JSON, or nothing>".
\* The digest is taken to be free of collisions.
GetCacheKey(endpoint, params) ==
    [endpoint |-> endpoint,
     params |-> IF Truthy(params) THEN JsonDumpsSorted(params) ELSE {}]

CacheKeys == {GetCacheKey(e, p) : e \in Endpoints, p \in ParamsChoices}

\* JSON bodies the tracker may send: objects, the empty object among them.
Bodies == {"{}", "body1", "body2"}

\* No file of that name in the cache directory.
Absent == <<"absent">>

\* json.dump(data, f) and json.load(f): a file holding the text of a body.
JsonDump(data) == <<"json", data>>

JsonLoad(file) == file[2]

None == "None"

\* _get_from_cache: the body stored for the key and that a hit was counted,
\* or None.
GetFromCache(enabled, files, cache_key) ==
    IF ~enabled THEN [data |-> None, hit |-> FALSE]
    ELSE IF files[cache_key] # Absent
    THEN [data |-> JsonLoad(files[cache_key]), hit |-> TRUE]
    ELSE [data |-> None, hit |-> FALSE]

\* A variant that writes nothing.
SaveToCache_Noop(enabled, files, cache_key, data) == files

\* _save_to_cache: the directory after the body has been written.
SaveToCache(enabled, files, cache_key, data) ==
    IF ~enabled THEN files
    ELSE [files EXCEPT ![cache_key] = JsonDump(data)]

\* What the tracker may send back: a 200 answer with a body, or a failure.
Replies ==
    {[answer |-> "200", data |-> b] : b \in Bodies}
        \cup {[answer |-> a, data |-> "-"] : a \in HttpAnswers \ {"200"}}

NoRequest ==
    [op |-> "none", key |-> GetCacheKey("myself", NoParams), cached |-> FALSE,
     stored_before |-> Absent, network |-> FALSE, answer |-> "-", returned |-> "-"]

EmptyDirectory == [k \in CacheKeys |-> Absent]

CacheInit ==
    /\ enable_cache \in BOOLEAN
    /\ cache_files \in [CacheKeys -> {Absent} \cup {JsonDump(b) : b \in Bodies}]
    /\ Cardinality({k \in CacheKeys : cache_files[k] # Absent}) <= 1
    /\ cache_hit_count = 0
    /\ cache_miss_count = 0
    /\ last_request = NoRequest
    /\ pinned = cache_files
    /\ requests_made = 0

CacheIdle ==
    /\ enable_cache = FALSE
    /\ cache_files = EmptyDirectory
    /\ cache_hit_count = 0
    /\ cache_miss_count = 0
    /\ last_request = NoRequest
    /\ pinned = EmptyDirectory
    /\ requests_made = 0

\* _make_request(endpoint, params, method, use_cache): look the key up, and
\* on a miss call the tracker, store the body of a 200 answer and return it,
\* or raise the error of another answer.
MakeRequestCached ==
    /\ requests_made < MaxRequests
    /\ \E endpoint \in Endpoints, params \in ParamsChoices,
          method \in {"GET", "POST"}, use_cache \in BOOLEAN :
          LET caching == use_cache /\ method = "GET"
              cache_key == GetCacheKey(endpoint, params)
              got == IF caching
                     THEN GetFromCache(enable_cache, cache_files, cache_key)
                     ELSE [data |-> None, hit |-> FALSE]
          IN  /\ requests_made' = requests_made + 1
              /\ cache_hit_count' = cache_hit_count + (IF got.hit THEN 1 ELSE 0)
              /\ IF got.data # None
                 THEN \* answered from the cache
                      /\ last_request' =
                            [op |-> "request", key |-> cache_key,
                             cached |-> caching /\ enable_cache,
                             stored_before |-> cache_files[cache_key],
                             network |-> FALSE, answer |-> "-",
                             returned |-> got.data]
                      /\ UNCHANGED <<cache_files, cache_miss_count, pinned>>
                 ELSE \E reply \in Replies :
                      LET answer == reply.answer
                          data == reply.data
                      IN
                      /\ last_request' =
                            [op |-> "request", key |-> cache_key,
                             cached |-> caching /\ enable_cache,
                             stored_before |-> cache_files[cache_key],
                             network |-> TRUE, answer |-> answer,
                             returned |-> IF MakeRequest(answer) = "data"
                                          THEN data ELSE MakeRequest(answer)]
                      /\ IF MakeRequest(answer) = "data" /\ caching
                         THEN /\ cache_files' =
                                    SaveToCache(enable_cache, cache_files, cache_key, data)
                              /\ cache_miss_count' = cache_miss_count + 1
                              /\ pinned' =
                                    IF enable_cache /\ pinned[cache_key] = Absent
                                    THEN [pinned EXCEPT ![cache_key] = JsonDump(data)]
                                    ELSE pinned
                         ELSE UNCHANGED <<cache_files, cache_miss_count, pinned>>
    /\ UNCHANGED enable_cache
    /\ UNCHANGED notCache

\* clear_cache: every file of the cache directory is removed.
ClearCache ==
    /\ cache_files' = [k \in CacheKeys |-> Absent]
    /\ pinned' = EmptyDirectory
    /\ last_request' = [NoRequest EXCEPT !.op = "clear"]
    /\ UNCHANGED <<enable_cache, cache_hit_count, cache_miss_count, requests_made>>
    /\ UNCHANGED notCache

-----------------------------------------------------------------------------
(* JiraClient.get_issues_with_worklog: the pagination loop                 *)

MaxTotal == 10

MaxPage == 4

\* Most passes of the while loop that are followed.
MaxPasses == MaxTotal + 2

\* The trackers the loop is run against: one reports `total` records, holds
\* `held` of them and serves them in pages of `page` records.  These hold
\* what they report.
Servers ==
    {[total |-> T, page |-> P, held |-> T] : T \in 0..MaxTotal, P \in 1..MaxPage}
        \cup {[total |-> 250, page |-> 100, held |-> 250]}

\* Trackers (or cached answers) that report more records than they serve:
\* the page at and after `held` is empty.
ShortServers ==
    {[total |-> T, page |-> P, held |-> H] :
        T \in 1..MaxTotal, P \in 1..MaxPage, H \in 0..MaxTotal}

Min(a, b) == IF a <= b THEN a ELSE b

\* The answer of the tracker to a search with startAt = s: the records
\* s+1 .. s+page as far as it holds any, and the total it reports.
ServerPage(srv, s) ==
    [issues |-> [i \in 1..(IF s < srv.held THEN Min(s + srv.page, srv.held) - s ELSE 0)
                    |-> s + i],
     total |-> srv.total]

\* A variant that counts pages instead of records.
NextStartAt_PageIndex(s, batch) == s + 1

\* start_at += len(batch)
NextStartAt(s, batch) == s + Len(batch)

\* if start_at + len(batch) >= total: break
LoopEnds(s, batch, total) == s + Len(batch) >= total

PageInit ==
    /\ server \in Servers
    /\ pg_pc = "loop"
    /\ start_at = 0
    /\ fetched = <<>>
    /\ page_requests = <<>>

\* One call against a tracker that holds fewer records than it reports.
ShortPageInit ==
    /\ server \in {srv \in ShortServers : srv.held < srv.total}
    /\ pg_pc = "loop"
    /\ start_at = 0
    /\ fetched = <<>>
    /\ page_requests = <<>>

PageIdle ==
    /\ server = [total |-> 0, page |-> 1, held |-> 0]
    /\ pg_pc = "idle"
    /\ start_at = 0
    /\ fetched = <<>>
    /\ page_requests = <<>>

\* One pass of the while loop: request the page at start_at, append its
\* records, and either leave the loop or move start_at on.  Passes after
\* the MaxPasses-th are not followed.
FetchPage ==
    /\ pg_pc = "loop"
    /\ Len(page_requests) < MaxPasses
    /\ LET response == ServerPage(server, start_at)
           batch == response.issues
           total == response.total
       IN  /\ page_requests' =
                 Append(page_requests,
                        [start_at |-> start_at, fetched_before |-> Len(fetched)])
           /\ fetched' = fetched \o batch
           /\ IF LoopEnds(start_at, batch, total)
              THEN /\ pg_pc' = "done"
                   /\ UNCHANGED start_at
              ELSE /\ pg_pc' = "loop"
                   /\ start_at' = NextStartAt(start_at, batch)
    /\ UNCHANGED server
    /\ UNCHANGED notPage

-----------------------------------------------------------------------------
(* JiraClient._categorize_work_type and _extract_field_value               *)

\* A string is a sequence of words; a word keeps its letter case.
Words ==
    {"Maintenance", "MAINTENANCE", "maintenance", "Development", "development",
     "Story", "Bug", "bug", "Hotfix", "bugfix", "Other", "5"}

\* str.lower() of a word
LowerWord(w) ==
    CASE w \in {"Maintenance", "MAINTENANCE"} -> "maintenance"
      [] w = "Development" -> "development"
      [] w = "Story" -> "story"
      [] w = "Bug" -> "bug"
      [] w = "Hotfix" -> "hotfix"
      [] w = "Other" -> "other"
      [] OTHER -> w

\* str.lower()
Lower(text) == [i \in 1..Len(text) |-> LowerWord(text[i])]

\* `word in text` for a key word and a string: the word occurs in it.
Contains(word, text) == \E i \in 1..Len(text) : text[i] = word

\* A JSON value of the fields payload.  kind: "absent" (no such key), "null",
\* "str", "number", "dict" or "list"; text: the string, or the words of the
\* number; value: for a dict what sits under its 'value' key ("missing",
\* "null", "str" with the string in text, or "dict"), "empty" for {}.
Json(kind, text, value) == [kind |-> kind, text |-> text, value |-> value]

AbsentField == Json("absent", <<>>, "-")

\* Python's truth value of a JSON value
IsTruthy(v) ==
    CASE v.kind \in {"absent", "null"} -> FALSE
      [] v.kind = "str" -> v.text # <<>>
      [] v.kind = "number" -> v.text # <<"0">>
      [] v.kind = "dict" -> v.value # "empty"
      [] v.kind = "list" -> v.text # <<>>
      [] OTHER -> FALSE

\* _extract_field_value: field_value.get('value', '') of a dict, the string
\* itself, str(field_value) of anything else.  The result is a string, or
\* whatever sits under 'value' when that is no string.
ExtractFieldValue(v) ==
    CASE v.kind = "dict" ->
            (CASE v.value = "str" -> Json("str", v.text, "-")
               [] v.value \in {"missing", "empty"} -> Json("str", <<>>, "-")
               [] v.value = "null" -> Json("null", <<>>, "-")
               [] OTHER -> Json("dict", <<>>, "missing"))
      [] v.kind = "str" -> v
      [] OTHER -> Json("str", v.text, "-")

\* The rule applied to one custom field: "Maintenance", "Development",
\* "next" when the field decides nothing, "raised" when .lower() is called
\* on something that is no string (AttributeError).
FieldRule(v) ==
    IF ~IsTruthy(v) THEN "next"
    ELSE LET x == ExtractFieldValue(v)
         IN  IF x.kind # "str" THEN "raised"
             ELSE IF Contains("maintenance", Lower(x.text)) THEN "Maintenance"
             ELSE IF Contains("development", Lower(x.text)) THEN "Development"
             ELSE "next"

maintenance_types == {"bug", "hotfix", "support", "incident", "defect"}

maintenance_labels == {"maintenance", "bugfix", "hotfix", "support", "patch"}

\* The fallback on issue type and labels.  issuetype: "absent", "null" or a
\* dict with a name; labels: "absent", "null" or a list of strings.
Fallback(issuetype, labels) ==
    IF issuetype.kind = "null" THEN "raised"       \* None.get('name', '')
    ELSE IF labels.kind = "null" THEN "raised"     \* for label in None
    ELSE LET issue_type == IF issuetype.kind = "absent" THEN <<>> ELSE Lower(issuetype.text)
             lowered == {Lower(labels.items[i]) : i \in 1..Len(labels.items)}
         IN  IF \/ \E mt \in maintenance_types : Contains(mt, issue_type)
                \/ \E ml \in maintenance_labels : <<ml>> \in lowered
             THEN "Maintenance"
             ELSE "Development"

CustomFieldOrder == <<"customfield_10082", "customfield_10048", "customfield_10081">>

RECURSIVE RulesFrom(_, _)
\* The custom fields n.. in order, then the fallback.
RulesFrom(fields, n) ==
    IF n > Len(CustomFieldOrder)
    THEN Fallback(fields.issuetype, fields.labels)
    ELSE LET r == FieldRule(fields[CustomFieldOrder[n]])
         IN  IF r = "next" THEN RulesFrom(fields, n + 1) ELSE r

\* _categorize_work_type(fields): a WorkType, or "raised"
CategorizeWorkType(fields) == RulesFrom(fields, 1)

\* The values a custom field of the payload may hold.
CustomValues ==
    {AbsentField,
     Json("str", <<>>, "-"),
     Json("str", <<"Maintenance">>, "-"),
     Json("str", <<"Development", "MAINTENANCE">>, "-"),
     Json("str", <<"Other">>, "-"),
     Json("dict", <<"Maintenance">>, "str"),
     Json("dict", <<"development">>, "str"),
     Json("dict", <<>>, "null"),
     Json("dict", <<>>, "dict"),
     Json("dict", <<>>, "missing"),
     Json("number", <<"5">>, "-")}

\* fields['issuetype']: absent, null, or a dict with a name
IssueTypes ==
    {[kind |-> "absent", text |-> <<>>], [kind |-> "null", text |-> <<>>],
     [kind |-> "dict", text |-> <<"Story">>], [kind |-> "dict", text |-> <<"Bug">>]}

\* fields['labels']: absent, null, or a list of strings
LabelLists ==
    {[kind |-> "absent", items |-> <<>>], [kind |-> "null", items |-> <<>>],
     [kind |-> "list", items |-> <<<<"bugfix">>>>],
     [kind |-> "list", items |-> <<<<"Maintenance">>>>],
     [kind |-> "list", items |-> <<<<"maintenance", "Other">>>>]}

Payloads ==
    [customfield_10082 : CustomValues, customfield_10048 : CustomValues,
     customfield_10081 : CustomValues, issuetype : IssueTypes, labels : LabelLists]

ClassInit ==
    /\ issue_fields \in Payloads
    /\ categorized = "pending"
    /\ cpc = "input"

ClassIdle ==
    /\ issue_fields = [customfield_10082 |-> AbsentField,
                       customfield_10048 |-> AbsentField,
                       customfield_10081 |-> AbsentField,
                       issuetype |-> [kind |-> "absent", text |-> <<>>],
                       labels |-> [kind |-> "absent", items |-> <<>>]]
    /\ categorized = "pending"
    /\ cpc = "idle"

\* One call: work_type = self._categorize_work_type(fields)
Categorize ==
    /\ cpc = "input"
    /\ categorized' = CategorizeWorkType(issue_fields)
    /\ cpc' = "done"
    /\ UNCHANGED issue_fields
    /\ UNCHANGED notClass

-----------------------------------------------------------------------------
(* Inputs of one call of aggregate_entries                                 *)

\* Most entries of an input list.
MaxEntries == 3

\* The (project_component, work_type) of an input entry.
SlotChoices ==
    {[project_component |-> ProjectComponent("P1", "Backend"), work_type |-> "Development"],
     [project_component |-> ProjectComponent("P1", "Backend"), work_type |-> "Maintenance"],
     [project_component |-> ProjectComponent("P2", "Backend"), work_type |-> "Development"]}

\* The issue lists of an input entry, as process_issues builds them: no key
\* twice in one list.
IssueListChoices == {<<"TEST-1">>, <<"TEST-2", "TEST-1">>}

EntryChoices == [slot : SlotChoices, author : {AuthorA1, AuthorA2, AuthorA4},
                 issues : IssueListChoices]

\* The n-th entry of an input list holds BaseSeconds * 2^(n-1) seconds, so
\* that a sum of hours tells which entries went into it.
MakeEntries(cs) ==
    [n \in 1..Len(cs) |->
        [project_component |-> cs[n].slot.project_component,
         author |-> cs[n].author,
         hours |-> BaseSeconds * Pow2(n - 1),
         work_type |-> cs[n].slot.work_type,
         issues |-> cs[n].issues]]

\* The caller's list after aggregate_entries(es): aggregated[key] = entry
\* stores the entry object itself, so the first entry of each slot of the
\* dict is the object the later ones are merged into.
InputAfter(es) ==
    [n \in 1..Len(es) |->
        IF DictFind(AggregateFrom(<<>>, SubSeq(es, 1, n - 1), 1), EntryKey(es[n])) = 0
        THEN AggregateEntries(es)[DictFind(AggregateEntries(es), EntryKey(es[n]))]
        ELSE es[n]]

AggInit ==
    /\ \E k \in 0..MaxEntries : \E cs \in [1..k -> EntryChoices] :
           agg_input = MakeEntries(cs)
    /\ agg_output = <<>>
    /\ agg_after = agg_input
    /\ apc = "input"

AggIdle ==
    /\ agg_input = <<>>
    /\ agg_output = <<>>
    /\ agg_after = <<>>
    /\ apc = "idle"

\* One call: aggregated = processor.aggregate_entries(entries)
Aggregate ==
    /\ apc = "input"
    /\ agg_output' = AggregateEntries(agg_input)
    /\ agg_after' = InputAfter(agg_input)
    /\ apc' = "done"
    /\ UNCHANGED agg_input
    /\ UNCHANGED notAgg

-----------------------------------------------------------------------------
(* The exporters: src/src/exporters/                                       *)

\* Authors of an exported report.  Every author has an account id of its
\* own, so Author.__eq__ and Author.__hash__ agree on them.
JaneSmith == [email |-> "jane@example.com", display_name |-> "Jane Smith",
              account_id |-> "acc-jane", active |-> TRUE]

JohnDoe == [email |-> "john@example.com", display_name |-> "John Doe",
            account_id |-> "acc-john", active |-> TRUE]

ZedGone == [email |-> "zed@example.com", display_name |-> "Zed gone",
            account_id |-> "acc-zed", active |-> FALSE]

\* sorted(..., key=lambda a: a.display_name) over the authors above.
AuthorsByName == <<JaneSmith, JohnDoe, ZedGone>>

\* str.title() on the display names above.
Title(name) == IF name = "Zed gone" THEN "Zed Gone" ELSE name

\* sorted(..., key=lambda pc: (pc.project, pc.component.name)) over the
\* project components of a report.
PcsByName == <<ProjectComponent("TEST", "Backend"), ProjectComponent("TEST", "Frontend")>>

\* [('Development', WorkType.DEVELOPMENT), ('Maintenance', WorkType.MAINTENANCE)]
TrackedWorkTypes == <<"Development", "Maintenance">>

\* Two authors address the same slot of a dict or the same element of a set.
SameAuthorKey(a, b) == AuthorHash(a) = AuthorHash(b) /\ AuthorEq(a, b)

RECURSIVE SumOver(_, _)
\* sum(f[x] for x in S)
SumOver(f, S) ==
    IF S = {} THEN 0
    ELSE LET x == CHOOSE y \in S : TRUE IN f[x] + SumOver(f, S \ {x})

RECURSIVE Concat(_)
\* The rows of a list of lists of rows, in order.
Concat(ss) == IF ss = <<>> THEN <<>> ELSE Head(ss) \o Concat(Tail(ss))

\* f"{hours:.1f}": hours, kept in seconds, to the nearest tenth of an hour.
\* No value printed here lies half way between two tenths.
Format1(seconds) ==
    LET tenths == (seconds + 180) \div 360
    IN  ToString(tenths \div 10) \o "." \o ToString(tenths % 10)

\* f"{hours:.1f}" if hours > 0 else ""
Cell(seconds) == IF seconds > 0 THEN Format1(seconds) ELSE ""

\* The places (monthly report, entry) of a report, as the two loops
\* `for monthly_report in report.monthly_reports: for entry in ...` visit them.
Positions(rep) ==
    UNION {{<<m, i>> : i \in 1..Len(rep[m].entries)} : m \in 1..Len(rep)}

EntryAt(rep, p) == rep[p[1]].entries[p[2]]

MonthAt(rep, p) == rep[p[1]].month

\* A variant that never filters.
IsFilteredOut_Never(e, flag) == FALSE

\* `self.filter_active_only and not entry.author.active`
IsFilteredOut(e, flag) == flag /\ ~e.author.active

\* `work_type in [WorkType.DEVELOPMENT, WorkType.MAINTENANCE]`
IsTracked(e) == e.work_type \in {"Development", "Maintenance"}

\* The places whose entry reaches the `+=` of an exporter's loop.
Included(rep, flag) ==
    {p \in Positions(rep) : ~IsFilteredOut(EntryAt(rep, p), flag) /\ IsTracked(EntryAt(rep, p))}

\* The places filed under (work_type, pc, author).
IncludedFor(rep, flag, wt, pc, a) ==
    {p \in Included(rep, flag) :
        /\ EntryAt(rep, p).work_type = wt
        /\ EntryAt(rep, p).project_component = pc
        /\ SameAuthorKey(EntryAt(rep, p).author, a)}

\* sorted(all_authors, key=lambda a: a.display_name), and
\* sorted(data_by_author.keys(), key=lambda a: a.display_name)
SortedAuthors(rep, flag) ==
    SelectSeq(AuthorsByName,
              LAMBDA a : \E p \in Included(rep, flag) :
                             SameAuthorKey(EntryAt(rep, p).author, a))

\* sorted(data_by_type[wt].keys(), key=...): the components of a section
SortedPcs(rep, flag, wt) ==
    SelectSeq(PcsByName,
              LAMBDA pc : \E p \in Included(rep, flag) :
                              /\ EntryAt(rep, p).work_type = wt
                              /\ EntryAt(rep, p).project_component = pc)

\* sorted(data_by_author[a][wt].keys(), key=...): the components of an author
SortedPcsOf(rep, flag, a, wt) ==
    SelectSeq(PcsByName, LAMBDA pc : IncludedFor(rep, flag, wt, pc, a) # {})

\* ---- TeamOverviewExporter.export_yearly ----

\* data_by_type[wt][pc].get(author, 0) after the loop
YearlyData(rep, flag, wt, pc, a) ==
    LET S == IncludedFor(rep, flag, wt, pc, a)
    IN  SumOver([p \in S |-> EntryAt(rep, p).hours], S)

\* The rows of one section: marker, header, data rows, TOTAL row.
YearlySectionRows(name, header, rows, total) ==
    << <<name>>, header >> \o rows \o << total >>

\* sum(dev_data[pc].get(author, 0) for pc in sorted_dev_pcs)
YearlyTotal(rep, flag, wt, pcs, a) ==
    SumOver([k \in 1..Len(pcs) |-> YearlyData(rep, flag, wt, pcs[k], a)],
            1..Len(pcs))

YearlySection(rep, flag, wt, name) ==
    LET authors == SortedAuthors(rep, flag)
        pcs == SortedPcs(rep, flag, wt)
        header == <<"Project", "Component">> \o
                  [i \in 1..Len(authors) |-> Title(authors[i].display_name)]
        row(pc) == <<pc.project, pc.component>> \o
                   [i \in 1..Len(authors) |->
                       Cell(YearlyData(rep, flag, wt, pc, authors[i]))]
        total == <<"TOTAL", "">> \o
                 [i \in 1..Len(authors) |->
                     Cell(YearlyTotal(rep, flag, wt, pcs, authors[i]))]
    IN  YearlySectionRows(name, header, [k \in 1..Len(pcs) |-> row(pcs[k])], total)

\* The rows TeamOverviewExporter.export_yearly writes.
YearlyCsv(rep, flag) ==
    YearlySection(rep, flag, "Development", "DEVELOPMENT")
    \o << <<>> >>
    \o YearlySection(rep, flag, "Maintenance", "MAINTENANCE")

\* ---- BaseExporter._write_metadata_header ----

\* generate_report sets fetch_timestamp on every report it exports.
MetadataHeader == << <<"Generated: <fetch_timestamp> (Malaysia Time)">>, <<>> >>

\* ---- QuarterlyBreakdownExporter.export_yearly ----

Quarters == <<1, 2, 3, 4>>

\* A variant that takes the quarter of month 3 for the second one.
GetQuarter_OffByOne(month) == month \div 3 + 1

\* _get_quarter(month)
GetQuarter(month) == (month - 1) \div 3 + 1

\* data_by_type[wt][pc].get(author, {}).get(quarter, 0) after the loop
QuarterlyData(rep, flag, wt, pc, a, quarter) ==
    LET S == {p \in IncludedFor(rep, flag, wt, pc, a) :
                 GetQuarter(MonthAt(rep, p)) = quarter}
    IN  SumOver([p \in S |-> EntryAt(rep, p).hours], S)

\* sum(dev_data[pc].get(author, {}).get(quarter, 0) for pc in sorted_dev_pcs)
QuarterlyTotal(rep, flag, wt, pcs, a, quarter) ==
    SumOver([k \in 1..Len(pcs) |-> QuarterlyData(rep, flag, wt, pcs[k], a, quarter)],
            1..Len(pcs))

\* `for author in sorted_authors: for quarter in range(1, 5)`: the columns
QuarterColumns(authors) ==
    [c \in 1..(4 * Len(authors)) |->
        [author |-> authors[((c - 1) \div 4) + 1], quarter |-> ((c - 1) % 4) + 1]]

QuarterlySection(rep, flag, wt, name) ==
    LET cols == QuarterColumns(SortedAuthors(rep, flag))
        pcs == SortedPcs(rep, flag, wt)
        header == <<"Project", "Component">> \o
                  [c \in 1..Len(cols) |->
                      Title(cols[c].author.display_name) \o " Q" \o ToString(cols[c].quarter)]
        row(pc) == <<pc.project, pc.component>> \o
                   [c \in 1..Len(cols) |->
                       Cell(QuarterlyData(rep, flag, wt, pc, cols[c].author, cols[c].quarter))]
        total == <<"TOTAL", "">> \o
                 [c \in 1..Len(cols) |->
                     Cell(QuarterlyTotal(rep, flag, wt, pcs, cols[c].author, cols[c].quarter))]
    IN  << <<name>>, header >> \o [k \in 1..Len(pcs) |-> row(pcs[k])] \o << total >>

\* The rows QuarterlyBreakdownExporter.export_yearly writes.
QuarterlyCsv(rep, flag) ==
    MetadataHeader
    \o QuarterlySection(rep, flag, "Development", "DEVELOPMENT")
    \o << <<>> >>
    \o QuarterlySection(rep, flag, "Maintenance", "MAINTENANCE")

\* ---- MonthlyBreakdownExporter.export_yearly and _export_to_csv ----

\* [month_name[i][:3] for i in range(1, 13)]
month_names == <<"Jan", "Feb", "Mar", "Apr", "May", "Jun",
                 "Jul", "Aug", "Sep", "Oct", "Nov", "Dec">>

\* data_by_author[author][wt][pc].get(month, 0) after the loop
MonthlyData(rep, flag, a, wt, pc, month) ==
    LET S == {p \in IncludedFor(rep, flag, wt, pc, a) : MonthAt(rep, p) = month}
    IN  SumOver([p \in S |-> EntryAt(rep, p).hours], S)

\* The row of one (author, work type, component): twelve cells and row_total.
MonthlyRow(rep, flag, a, wt, pc) ==
    LET hours == [m \in 1..12 |-> MonthlyData(rep, flag, a, wt, pc, m)]
    IN  <<Title(a.display_name), wt, pc.project, pc.component>>
        \o [m \in 1..12 |-> Cell(hours[m])]
        \o <<Cell(SumOver(hours, 1..12))>>

\* The rows of one author: the Development rows, then the Maintenance rows.
MonthlyRowsOf(rep, flag, a) ==
    Concat([t \in 1..2 |->
               LET pcs == SortedPcsOf(rep, flag, a, TrackedWorkTypes[t])
               IN  [k \in 1..Len(pcs) |->
                       MonthlyRow(rep, flag, a, TrackedWorkTypes[t], pcs[k])]])

\* The rows MonthlyBreakdownExporter._export_to_csv writes.
MonthlyCsv(rep, flag) ==
    LET authors == SortedAuthors(rep, flag)
    IN  << <<"Team Member", "Work Type", "Project", "Component">> \o month_names \o <<"Total">> >>
        \o Concat([i \in 1..Len(authors) |-> MonthlyRowsOf(rep, flag, authors[i])])

\* ---- WeeklyBreakdownExporter.export_yearly and _export_to_csv ----

\* What an entry adds to data[pc][(month, week)]: its week_hours when it has
\* any, else all of its hours in week 1.
WeekPart(e, week) ==
    IF DOMAIN e.week_hours # {}
    THEN IF week \in DOMAIN e.week_hours THEN e.week_hours[week] ELSE 0
    ELSE IF week = 1 THEN e.hours ELSE 0

\* data_by_author[author][wt][pc].get((month, week), 0) after the loop
WeeklyData(rep, flag, a, wt, pc, month, week) ==
    LET S == {p \in IncludedFor(rep, flag, wt, pc, a) : MonthAt(rep, p) = month}
    IN  SumOver([p \in S |-> WeekPart(EntryAt(rep, p), week)], S)

\* `for month in range(1, 13): for week in range(1, 6)`: the sixty columns
WeekColumns == [c \in 1..60 |-> [month |-> ((c - 1) \div 5) + 1, week |-> ((c - 1) % 5) + 1]]

\* week_headers: JanW1, JanW2, ..., DecW5
week_headers ==
    [c \in 1..60 |-> month_names[WeekColumns[c].month] \o "W" \o ToString(WeekColumns[c].week)]

\* The row of one (author, work type, component): sixty cells and row_total.
WeeklyRow(rep, flag, a, wt, pc) ==
    LET hours == [c \in 1..60 |->
                     WeeklyData(rep, flag, a, wt, pc, WeekColumns[c].month, WeekColumns[c].week)]
    IN  <<Title(a.display_name), wt, pc.project, pc.component>>
        \o [c \in 1..60 |-> Cell(hours[c])]
        \o <<Cell(SumOver(hours, 1..60))>>

WeeklyRowsOf(rep, flag, a) ==
    Concat([t \in 1..2 |->
               LET pcs == SortedPcsOf(rep, flag, a, TrackedWorkTypes[t])
               IN  [k \in 1..Len(pcs) |->
                       WeeklyRow(rep, flag, a, TrackedWorkTypes[t], pcs[k])]])

\* The rows WeeklyBreakdownExporter._export_to_csv writes.
WeeklyCsv(rep, flag) ==
    LET authors == SortedAuthors(rep, flag)
    IN  MetadataHeader
        \o << <<"Team Member", "Work Type", "Project", "Component">> \o week_headers \o <<"Total">> >>
        \o Concat([i \in 1..Len(authors) |-> WeeklyRowsOf(rep, flag, authors[i])])

\* ---- Reports to export ----

\* Most entries of an exported report.
MaxExpEntries == 4

\* Most tenths of an hour a cell of an exported report reads.
MaxTenths == 1000

Backend == ProjectComponent("TEST", "Backend")

Frontend == ProjectComponent("TEST", "Frontend")

Placed(month, pc, author, seconds, work_type, weeks) ==
    [month |-> month,
     entry |-> [project_component |-> pc, author |-> author, hours |-> seconds,
                work_type |-> work_type, issues |-> <<"TEST-1">>,
                week_hours |-> weeks]]

\* The entries a report is made of, each with the month it was logged in.
\* The first four are the entries of tests/test_team_overview_exporter.py;
\* the others add small and zero hours, an inactive author, the work types,
\* months of other quarters and an entry with week_hours.
ExpEntryChoices ==
    << Placed(1, Backend, JohnDoe, 36000, "Development", NoWeeks),
       Placed(1, Backend, JaneSmith, 54000, "Development", NoWeeks),
       Placed(1, Frontend, JohnDoe, 28800, "Development", NoWeeks),
       Placed(1, Frontend, JaneSmith, 43200, "Development", NoWeeks),
       Placed(2, Backend, JaneSmith, 240, "Development", NoWeeks),
       Placed(4, Frontend, JaneSmith, 240, "Development", NoWeeks),
       Placed(1, Backend, ZedGone, 36000, "Development", NoWeeks),
       Placed(4, Backend, ZedGone, 7200, "Maintenance", NoWeeks),
       Placed(2, Backend, JohnDoe, 60, "Maintenance", NoWeeks),
       Placed(4, Backend, JohnDoe, 0, "Maintenance", NoWeeks),
       Placed(12, Frontend, JaneSmith, 5400, "Maintenance", (2 :> 3600) @@ (5 :> 1800)),
       Placed(2, Frontend, JohnDoe, 3600, "Unclassified", NoWeeks),
       Placed(12, Backend, JohnDoe, 36000, "Development", NoWeeks) >>

\* _create_yearly_report_from_entries with preserve_months: the twelve
\* monthly reports, month m holding the chosen entries of month m.
MakeReport(chosen) ==
    [m \in 1..12 |->
        [month |-> m,
         entries |->
            LET picked == SelectSeq([n \in 1..Len(ExpEntryChoices) |-> n],
                                    LAMBDA n : n \in chosen /\ ExpEntryChoices[n].month = m)
            IN  [k \in 1..Len(picked) |-> ExpEntryChoices[picked[k]].entry]]]

ExporterNames == {"yearly", "quarterly", "monthly", "weekly"}

\* ReportConfig.EXPORTER_MAP and export_yearly: the rows the exporter of a
\* report type writes.  The yearly exporter is the one of
\* team_overview_exporter.py.
ExportCsv(report_type_name, rep, flag) ==
    CASE report_type_name = "yearly" -> YearlyCsv(rep, flag)
      [] report_type_name = "quarterly" -> QuarterlyCsv(rep, flag)
      [] report_type_name = "monthly" -> MonthlyCsv(rep, flag)
      [] report_type_name = "weekly" -> WeeklyCsv(rep, flag)

ExpInit ==
    /\ \E chosen \in SUBSET (1..Len(ExpEntryChoices)) :
          /\ Cardinality(chosen) <= MaxExpEntries
          /\ exp_report = MakeReport(chosen)
    /\ filter_active_only \in BOOLEAN
    /\ exporter \in ExporterNames
    /\ csv = <<>>
    /\ sheets = <<>>
    /\ xpc = "input"

ExpIdle ==
    /\ exp_report = <<>>
    /\ filter_active_only = TRUE
    /\ exporter = "yearly"
    /\ csv = <<>>
    /\ sheets = <<>>
    /\ xpc = "idle"

\* The display names the output has columns, rows or sheets for.
NamesOf(authors) == [i \in 1..Len(authors) |-> Title(authors[i].display_name)]

\* TeamOverviewExporter(output_path, filter_active_only).export_yearly(report)
ExportYearly ==
    /\ xpc = "input"
    /\ exporter = "yearly"
    /\ csv' = YearlyCsv(exp_report, filter_active_only)
    /\ sheets' = NamesOf(SortedAuthors(exp_report, filter_active_only))
    /\ xpc' = "done"
    /\ UNCHANGED <<exp_report, filter_active_only, exporter>>
    /\ UNCHANGED notExp

\* QuarterlyBreakdownExporter(output_path, filter_active_only).export_yearly(report)
ExportQuarterly ==
    /\ xpc = "input"
    /\ exporter = "quarterly"
    /\ csv' = QuarterlyCsv(exp_report, filter_active_only)
    /\ sheets' = NamesOf(SortedAuthors(exp_report, filter_active_only))
    /\ xpc' = "done"
    /\ UNCHANGED <<exp_report, filter_active_only, exporter>>
    /\ UNCHANGED notExp

\* MonthlyBreakdownExporter(output_path, filter_active_only).export_yearly(report)
ExportMonthly ==
    /\ xpc = "input"
    /\ exporter = "monthly"
    /\ csv' = MonthlyCsv(exp_report, filter_active_only)
    /\ sheets' = NamesOf(SortedAuthors(exp_report, filter_active_only))
    /\ xpc' = "done"
    /\ UNCHANGED <<exp_report, filter_active_only, exporter>>
    /\ UNCHANGED notExp

\* WeeklyBreakdownExporter(output_path, filter_active_only).export_yearly(report)
ExportWeekly ==
    /\ xpc = "input"
    /\ exporter = "weekly"
    /\ csv' = WeeklyCsv(exp_report, filter_active_only)
    /\ sheets' = NamesOf(SortedAuthors(exp_report, filter_active_only))
    /\ xpc' = "done"
    /\ UNCHANGED <<exp_report, filter_active_only, exporter>>
    /\ UNCHANGED notExp
-----------------------------------------------------------------------------
(* models.py: ==, hash() and week_number on every value                    *)

\* Author(email, display_name, account_id) values: with and without an
\* account id, alike and different in each field.
AuthorValues ==
    [email : {"jane@x", "john@x"}, display_name : {"Jane", "John"},
     account_id : {NoAccountId, "acc-1", "acc-2"}]

\* Component(name, id, description) values: parse_issue fills name and id,
\* a Component made by name alone has id None.
ComponentValues ==
    [name : {"Backend", "Frontend"}, id : {None, "10001", "10002"},
     description : {None, "API"}]

\* The days of a month.
Days == 1..31

\* Component.__eq__, as @dataclass writes it: the fields, one by one.
ComponentEq(a, b) ==
    /\ a.name = b.name
    /\ a.id = b.id
    /\ a.description = b.description

\* Component.__hash__: hash(self.name)
ComponentHash(c) == <<"name", c.name>>

\* ProjectComponent(project, component): its __eq__ and __hash__ read the
\* project and component.name only.
PcOf(project, c) == ProjectComponent(project, c.name)

NoOutcome == [kind |-> "none"]

ModInit ==
    /\ operands \in
          [kind : {"authors"}, a : AuthorValues, b : AuthorValues]
          \cup [kind : {"components"}, a : ComponentValues, b : ComponentValues]
          \cup [kind : {"day"}, day : Days]
    /\ outcome = NoOutcome
    /\ mpc = "input"

ModIdle ==
    /\ operands = [kind |-> "none"]
    /\ outcome = NoOutcome
    /\ mpc = "idle"

\* a == b, hash(a), hash(b) of two Author values
CompareAuthors ==
    /\ mpc = "input"
    /\ operands.kind = "authors"
    /\ outcome' = [kind |-> "authors",
                   eq |-> AuthorEq(operands.a, operands.b),
                   hash_a |-> AuthorHash(operands.a),
                   hash_b |-> AuthorHash(operands.b)]
    /\ mpc' = "done"
    /\ UNCHANGED operands
    /\ UNCHANGED notMod

\* a == b, hash(a), hash(b) of two Component values, and whether the
\* ProjectComponent values of one project made of them are one dict key.
CompareComponents ==
    /\ mpc = "input"
    /\ operands.kind = "components"
    /\ outcome' = [kind |-> "components",
                   eq |-> ComponentEq(operands.a, operands.b),
                   hash_a |-> ComponentHash(operands.a),
                   hash_b |-> ComponentHash(operands.b),
                   same_row |-> PcOf(ProjectKey, operands.a) = PcOf(ProjectKey, operands.b)]
    /\ mpc' = "done"
    /\ UNCHANGED operands
    /\ UNCHANGED notMod

\* worklog.week_number of a worklog started on the day
WeekNumberOfDay ==
    /\ mpc = "input"
    /\ operands.kind = "day"
    /\ outcome' = [kind |-> "day", week |-> WeekNumber(operands.day)]
    /\ mpc' = "done"
    /\ UNCHANGED operands
    /\ UNCHANGED notMod

-----------------------------------------------------------------------------
(* The weekly breakdown of one month, from worklogs to rows:               *)
(* fetch_month_project_data, then generate_csv_report with the weekly      *)
(* exporter                                                                *)

\* The month the pipeline fetches (March) and the days of its window, as
\* get_month_range gives them.
WeeklyWindow == [month |-> 3, start_date |-> 1, end_date |-> 31]

\* Days a worklog may have started on: the first and last day of weeks.
WeeklyDays == {1, 7, 8, 15, 28, 29, 31}

WeeklyWorklogChoices == [author : {JaneSmith, JohnDoe}, started : WeeklyDays]

\* One issue of component Backend with one to MaxWorklogs worklogs.
WeeklyInit ==
    /\ \E n \in 1..MaxWorklogs : \E ws \in [1..n -> WeeklyWorklogChoices] :
          issues = <<MakeIssue(1, <<"Backend">>, "Development", ws, 1)>>
    /\ filter_author = NoFilter
    /\ entries = <<>>
    /\ ppc = "month"
    /\ exp_report = <<>>
    /\ filter_active_only = TRUE
    /\ exporter = "weekly"
    /\ csv = <<>>
    /\ sheets = <<>>
    /\ xpc = "wait"

\* fetch_month_project_data: the entries process_issues makes of the month's
\* issues.
FetchMonthEntries ==
    /\ ppc = "month"
    /\ entries' = ProcessIssues(issues, ProjectKey, WeeklyWindow.start_date,
                                WeeklyWindow.end_date, filter_author)
    /\ ppc' = "processed"
    /\ UNCHANGED <<issues, filter_author>>
    /\ UNCHANGED notProc

\* create_reports_from_entries with preserve_months, then
\* generate_csv_report: the weekly exporter, filter_active_only=True.
GenerateWeeklyCsv ==
    /\ ppc = "processed"
    /\ xpc = "wait"
    /\ LET rep == [m \in 1..12 |->
                     [month |-> m,
                      entries |-> IF m = WeeklyWindow.month THEN entries ELSE <<>>]]
       IN  /\ exp_report' = rep
           /\ csv' = ExportCsv("weekly", rep, TRUE)
           /\ sheets' = NamesOf(SortedAuthors(rep, TRUE))
    /\ xpc' = "done"
    /\ UNCHANGED <<filter_active_only, exporter>>
    /\ UNCHANGED notExp

-----------------------------------------------------------------------------
(* One (project, month) task and its network calls: the search, the        *)
(* worklog listing of an issue, the user lookup of a worklog author        *)

\* The author object of a worklog in a tracker answer: with the author's
\* active flag (JSON true or false), or without it (None).
RawAuthor(a, with_active) ==
    [emailAddress |-> a.email, displayName |-> a.display_name,
     accountId |-> a.account_id,
     active |-> IF ~with_active THEN None
                ELSE IF a.active THEN "true" ELSE "false"]

RawAuthorChoices == {RawAuthor(a, f) : a \in {JaneSmith, ZedGone}, f \in BOOLEAN}

\* The n-th worklog of the month, n in 1..3, on day n.
RawWorklog(n, author) ==
    [author |-> author, started |-> n,
     timeSpentSeconds |-> BaseSeconds * Pow2(n - 1)]

\* The users the tracker knows, by account id, with their active flag.
TrackerUsers == {JaneSmith, ZedGone}

\* The month of the tracker: TEST-1 (Backend) with worklogs 1 and 2, of which
\* the search answer carries both or the first only, and TEST-2 (Frontend)
\* with worklog 3.
TrackerMonth(a1, a2, a3, inline1) ==
    << [key |-> "TEST-1", components |-> <<"Backend">>,
        all_worklogs |-> <<RawWorklog(1, a1), RawWorklog(2, a2)>>,
        inline |-> inline1],
       [key |-> "TEST-2", components |-> <<"Frontend">>,
        all_worklogs |-> <<RawWorklog(3, a3)>>,
        inline |-> 1] >>

CallKinds == {"search", "worklog", "user"}

\* get_issues_with_worklog: the raw issues, with fields.worklog holding the
\* first worklogs and the total.
SearchAnswer(tracker) ==
    [i \in 1..Len(tracker) |->
        [key |-> tracker[i].key, components |-> tracker[i].components,
         worklogs |-> SubSeq(tracker[i].all_worklogs, 1, tracker[i].inline),
         total |-> Len(tracker[i].all_worklogs)]]

\* get_all_worklogs_for_issue: the list, or [] on a JiraClientError.
GetAllWorklogsForIssue(tracker, issue_key, fails) ==
    IF "worklog" \in fails THEN <<>>
    ELSE LET i == CHOOSE j \in 1..Len(tracker) : tracker[j].key = issue_key
         IN  tracker[i].all_worklogs

\* get_user_details(...).get('active', True): {} on any exception.
UserActive(account_id, fails) ==
    IF "user" \in fails THEN TRUE
    ELSE (CHOOSE u \in TrackerUsers : u.account_id = account_id).active

\* parse_issue: the worklog list to parse.
WorklogList(tracker, raw, fails) ==
    IF raw.total > Len(raw.worklogs)
    THEN GetAllWorklogsForIssue(tracker, raw.key, fails)
    ELSE raw.worklogs

\* parse_issue: the Author of one raw worklog.
ParseAuthor(author_data, fails) ==
    [email |-> author_data.emailAddress,
     display_name |-> author_data.displayName,
     account_id |-> author_data.accountId,
     active |-> IF author_data.active # None THEN author_data.active = "true"
                ELSE UserActive(author_data.accountId, fails)]

\* parse_issue(raw, fetch_all_worklogs=True)
ParseIssueWorklogs(tracker, raw, fails) ==
    LET worklog_list == WorklogList(tracker, raw, fails)
    IN  [key |-> raw.key, components |-> raw.components,
         work_type |-> "Development",
         worklogs |-> [j \in 1..Len(worklog_list) |->
                          [author |-> ParseAuthor(worklog_list[j].author, fails),
                           started |-> worklog_list[j].started,
                           time_spent_seconds |-> worklog_list[j].timeSpentSeconds]]]

\* The kinds of call parse_issue makes for the raw issues.
ParseCalls(tracker, raws, fails) ==
    {"worklog" : i \in {j \in 1..Len(raws) : raws[j].total > Len(raws[j].worklogs)}}
    \cup {"user" : p \in {q \in (1..Len(raws)) \X (1..2) :
                            LET wl == WorklogList(tracker, raws[q[1]], fails)
                            IN  q[2] <= Len(wl) /\ wl[q[2]].author.active = None}}

TaskInit ==
    /\ \E a1, a2, a3 \in RawAuthorChoices : \E inline1 \in 1..2 :
          tracker_issues = TrackerMonth(a1, a2, a3, inline1)
    /\ failing \in SUBSET CallKinds
    /\ raw_issues = <<>>
    /\ parsed_issues = <<>>
    /\ contribution = <<>>
    /\ failed_calls = {}
    /\ tpc = "search"

TaskIdle ==
    /\ tracker_issues = <<>>
    /\ failing = {}
    /\ raw_issues = <<>>
    /\ parsed_issues = <<>>
    /\ contribution = <<>>
    /\ failed_calls = {}
    /\ tpc = "idle"

\* fetch_month_project_data: client.get_issues_with_worklog; a JiraClientError
\* ends the task with (project_key, month, []).
TaskSearch ==
    /\ tpc = "search"
    /\ IF "search" \in failing
       THEN /\ failed_calls' = {"search"}
            /\ tpc' = "done"
            /\ UNCHANGED raw_issues
       ELSE /\ raw_issues' = SearchAnswer(tracker_issues)
            /\ tpc' = "parse"
            /\ UNCHANGED failed_calls
    /\ UNCHANGED <<tracker_issues, failing, parsed_issues, contribution>>
    /\ UNCHANGED notTask

\* fetch_month_project_data: [client.parse_issue(raw, fetch_all_worklogs=True)
\* for raw in raw_issues]
TaskParse ==
    /\ tpc = "parse"
    /\ parsed_issues' = [i \in 1..Len(raw_issues) |->
                            ParseIssueWorklogs(tracker_issues, raw_issues[i], failing)]
    /\ failed_calls' = ParseCalls(tracker_issues, raw_issues, failing) \cap failing
    /\ tpc' = "process"
    /\ UNCHANGED <<tracker_issues, failing, raw_issues, contribution>>
    /\ UNCHANGED notTask

\* fetch_month_project_data: processor.process_issues and the return
TaskProcess ==
    /\ tpc = "process"
    /\ contribution' = ProcessIssues(parsed_issues, ProjectKey, WeeklyWindow.start_date,
                                     WeeklyWindow.end_date, NoFilter)
    /\ tpc' = "done"
    /\ UNCHANGED <<tracker_issues, failing, raw_issues, parsed_issues, failed_calls>>
    /\ UNCHANGED notTask

-----------------------------------------------------------------------------
(* Worker threads sharing one client and one cache directory: each makes   *)
(* one GET of the same cache key; a step is one read or write of the file  *)
(* or of a counter                                                         *)

\* Worker threads of the ThreadPoolExecutor.
MaxWorkers == 2

\* Writes of buffered text json.dump makes the operating system see, for one
\* body: the file grows chunk by chunk.
MaxChunks == 2

Workers == 1..MaxWorkers

\* No file for the key.
NoFile == [exists |-> FALSE, cells |-> <<>>]

\* A chunk-sized hole, left by a write beyond the end of the file.
Zeros == <<"zeros", 0>>

\* json.dump(data, f): the text of a body, in the chunks it is written in.
DumpText(data) == [k \in 1..MaxChunks |-> <<data, k>>]

JSONDecodeError == "JSONDecodeError"

\* A variant that takes what it can read of a partial file.
JsonLoadText_Partial(cells) ==
    IF cells # <<>> /\ \A k \in 1..Len(cells) : cells[k] = <<cells[1][1], k>>
    THEN IF Len(cells) = MaxChunks THEN cells[1][1] ELSE "partial"
    ELSE "partial"

\* json.load(f): the body whose text the file holds; an empty, partial or
\* holed text raises.
JsonLoadText(cells) ==
    IF /\ Len(cells) = MaxChunks
       /\ \A k \in 1..Len(cells) : cells[k] = <<cells[1][1], k>>
    THEN cells[1][1]
    ELSE JSONDecodeError

\* f.write(chunk) at the position of the writer's file offset.
WriteAt(cells, pos, cell) ==
    IF pos <= Len(cells) THEN [cells EXCEPT ![pos] = cell]
    ELSE cells \o [k \in 1..(pos - Len(cells) - 1) |-> Zeros] \o <<cell>>

\* The file of the key before the run: none, one an earlier run wrote, or
\* one an earlier run left half written.
WorkInit ==
    /\ server_body \in {"body1", "body2"}
    /\ cache_text \in {NoFile,
                       [exists |-> TRUE, cells |-> DumpText(server_body)],
                       [exists |-> TRUE, cells |-> SubSeq(DumpText(server_body), 1, 1)]}
    /\ wpc = [w \in Workers |-> "start"]
    /\ wcount = [w \in Workers |-> 0]
    /\ woffset = [w \in Workers |-> 0]
    /\ wreturned = [w \in Workers |-> None]
    /\ wnetwork = [w \in Workers |-> FALSE]
    /\ wevents = {}
    /\ enable_cache = TRUE
    /\ cache_files = EmptyDirectory
    /\ cache_hit_count = 0
    /\ cache_miss_count = 0
    /\ requests_made = 0
    /\ last_request = NoRequest
    /\ pinned = EmptyDirectory

WorkIdle ==
    /\ server_body = "-"
    /\ cache_text = NoFile
    /\ wpc = <<>>
    /\ wcount = <<>>
    /\ woffset = <<>>
    /\ wreturned = <<>>
    /\ wnetwork = <<>>
    /\ wevents = {}

\* What a step leaves alone of the client's fields and of the other parts.
WorkFrame == UNCHANGED <<enable_cache, cache_files, requests_made, last_request, pinned>>
             /\ UNCHANGED notCacheWork

\* _get_from_cache: cache_file.exists() and open(cache_file, 'r')
CacheLookup(w) ==
    /\ wpc[w] = "start"
    /\ wpc' = [wpc EXCEPT ![w] = IF cache_text.exists THEN "count" ELSE "request"]
    /\ UNCHANGED <<server_body, cache_text, wcount, woffset, wreturned, wnetwork,
                   wevents, cache_hit_count, cache_miss_count>>
    /\ WorkFrame

\* self.cache_hit_count += 1: the read of the field
CountHitRead(w) ==
    /\ wpc[w] = "count"
    /\ wcount' = [wcount EXCEPT ![w] = cache_hit_count]
    /\ wpc' = [wpc EXCEPT ![w] = "count_store"]
    /\ UNCHANGED <<server_body, cache_text, woffset, wreturned, wnetwork, wevents,
                   cache_hit_count, cache_miss_count>>
    /\ WorkFrame

\* self.cache_hit_count += 1: the store
CountHitStore(w) ==
    /\ wpc[w] = "count_store"
    /\ cache_hit_count' = wcount[w] + 1
    /\ wpc' = [wpc EXCEPT ![w] = "load"]
    /\ UNCHANGED <<server_body, cache_text, wcount, woffset, wreturned, wnetwork,
                   wevents, cache_miss_count>>
    /\ WorkFrame

\* return json.load(f); on an exception _get_from_cache returns None and
\* _make_request goes on to the network.
LoadCached(w) ==
    /\ wpc[w] = "load"
    /\ LET data == JsonLoadText(cache_text.cells)
       IN  IF data = JSONDecodeError
           THEN /\ wpc' = [wpc EXCEPT ![w] = "request"]
                /\ wevents' = wevents \cup
                      (IF \E v \in Workers : wpc[v] = "save_write"
                       THEN {"read_mid_write"} ELSE {"read_corrupt"})
                /\ UNCHANGED wreturned
           ELSE /\ wpc' = [wpc EXCEPT ![w] = "done"]
                /\ wreturned' = [wreturned EXCEPT ![w] = data]
                /\ UNCHANGED wevents
    /\ UNCHANGED <<server_body, cache_text, wcount, woffset, wnetwork,
                   cache_hit_count, cache_miss_count>>
    /\ WorkFrame

\* response = self.session.request(...); data = response.json()
NetworkGet(w) ==
    /\ wpc[w] = "request"
    /\ wnetwork' = [wnetwork EXCEPT ![w] = TRUE]
    /\ wpc' = [wpc EXCEPT ![w] = "save_open"]
    /\ UNCHANGED <<server_body, cache_text, wcount, woffset, wreturned, wevents,
                   cache_hit_count, cache_miss_count>>
    /\ WorkFrame

\* _save_to_cache: open(cache_file, 'w') makes the file empty
SaveOpen(w) ==
    /\ wpc[w] = "save_open"
    /\ cache_text' = [exists |-> TRUE, cells |-> <<>>]
    /\ woffset' = [woffset EXCEPT ![w] = 0]
    /\ wpc' = [wpc EXCEPT ![w] = "save_write"]
    /\ wevents' = wevents \cup
          (IF \E v \in Workers : wpc[v] = "save_write" THEN {"two_writers"} ELSE {})
    /\ UNCHANGED <<server_body, wcount, wreturned, wnetwork,
                   cache_hit_count, cache_miss_count>>
    /\ WorkFrame

\* _save_to_cache: json.dump(data, f), one chunk reaching the file
SaveWrite(w) ==
    /\ wpc[w] = "save_write"
    /\ woffset[w] < MaxChunks
    /\ cache_text' = [cache_text EXCEPT
                         !.cells = WriteAt(@, woffset[w] + 1,
                                           DumpText(server_body)[woffset[w] + 1])]
    /\ woffset' = [woffset EXCEPT ![w] = @ + 1]
    /\ UNCHANGED <<server_body, wpc, wcount, wreturned, wnetwork, wevents,
                   cache_hit_count, cache_miss_count>>
    /\ WorkFrame

\* _save_to_cache returns; self.cache_miss_count += 1; return data
SaveClose(w) ==
    /\ wpc[w] = "save_write"
    /\ woffset[w] = MaxChunks
    /\ cache_miss_count' = cache_miss_count + 1
    /\ wreturned' = [wreturned EXCEPT ![w] = server_body]
    /\ wpc' = [wpc EXCEPT ![w] = "done"]
    /\ UNCHANGED <<server_body, cache_text, wcount, woffset, wnetwork, wevents,
                   cache_hit_count>>
    /\ WorkFrame

-----------------------------------------------------------------------------
(* The monthly tasks of one project: get_month_range, the search of the    *)
(* month and process_issues, for every month of the year                   *)

\* The instants of the modelled year.
YearInstants == 0..(MaxMonth * TicksPerMonth - 1)

\* The month an instant lies in, by its date.
MonthOf(t) == (t \div TicksPerMonth) + 1

\* get_issues_with_worklog for the month: the issue, with all of its
\* worklogs, when one of them is dated in the month.
IssuesOfMonth(issue, m) ==
    IF \E j \in 1..Len(issue.worklogs) : MonthOf(issue.worklogs[j].started) = m
    THEN <<issue>> ELSE <<>>

\* One issue with one to MaxWorklogs worklogs of one author, started at any
\* instants of the year.
YearInit ==
    /\ \E n \in 1..MaxWorklogs : \E starts \in [1..n -> YearInstants] :
       \E components \in ComponentLists :
          year_issue =
             MakeIssue(1, components, "Development",
                       [j \in 1..n |-> [author |-> AuthorA2, started |-> starts[j]]], 1)
    /\ next_month = 1
    /\ year_entries = [m \in Months |-> <<>>]

YearIdle ==
    /\ year_issue = <<>>
    /\ next_month = 0
    /\ year_entries = <<>>

\* fetch_month_project_data(client, processor, project_key, year, month)
FetchMonthOfYear ==
    /\ next_month \in Months
    /\ year_entries' =
          [year_entries EXCEPT ![next_month] =
              ProcessIssues(IssuesOfMonth(year_issue, next_month), ProjectKey,
                            MonthStart(next_month), MonthEnd(next_month), NoFilter)]
    /\ next_month' = next_month + 1
    /\ UNCHANGED year_issue
    /\ UNCHANGED notYear


-----------------------------------------------------------------------------
(* Specifications                                                          *)

\* One call of process_issues on every input list.
InitProcess == ProcInit /\ RepIdle /\ CacheIdle /\ PageIdle /\ ClassIdle /\ AggIdle /\ ExpIdle /\ ModIdle /\ TaskIdle /\ WorkIdle /\ YearIdle

ProcNext == Process

SpecProcess == InitProcess /\ [][ProcNext]_vars

\* One run of generate_report.
InitReport == ProcIdle /\ RepInit /\ CacheIdle /\ PageIdle /\ ClassIdle /\ AggIdle /\ ExpIdle /\ ModIdle /\ TaskIdle /\ WorkIdle /\ YearIdle

RepNext ==
    \/ TestConnection
    \/ GetProjectKeys
    \/ \E t \in Tasks : CollectResult(t)
    \/ FinishRun

SpecReport == InitReport /\ [][RepNext]_vars

\* Runs of generate_report one after the other.
TwoRunsNext == RepNext \/ NewRun

SpecTwoRuns == InitReport /\ [][TwoRunsNext]_vars

\* GET requests of one client and clears of its cache directory.
InitCache == ProcIdle /\ RepIdle /\ CacheInit /\ PageIdle /\ ClassIdle /\ AggIdle /\ ExpIdle /\ ModIdle /\ TaskIdle /\ WorkIdle /\ YearIdle

CacheNext == MakeRequestCached \/ ClearCache

SpecCache == InitCache /\ [][CacheNext]_vars

\* One call of get_issues_with_worklog against every tracker.
InitPaging == ProcIdle /\ RepIdle /\ CacheIdle /\ PageInit /\ ClassIdle /\ AggIdle /\ ExpIdle /\ ModIdle /\ TaskIdle /\ WorkIdle /\ YearIdle

PageNext == FetchPage

SpecPaging == InitPaging /\ [][PageNext]_vars

\* One call of _categorize_work_type on every payload.
InitClassify == ProcIdle /\ RepIdle /\ CacheIdle /\ PageIdle /\ ClassInit /\ AggIdle /\ ExpIdle /\ ModIdle /\ TaskIdle /\ WorkIdle /\ YearIdle

ClassNext == Categorize

SpecClassify == InitClassify /\ [][ClassNext]_vars

\* One call of aggregate_entries on every input list.
InitAggregate == ProcIdle /\ RepIdle /\ CacheIdle /\ PageIdle /\ ClassIdle /\ AggInit /\ ExpIdle /\ ModIdle /\ TaskIdle /\ WorkIdle /\ YearIdle

AggNext == Aggregate

SpecAggregate == InitAggregate /\ [][AggNext]_vars

\* One call of export_yearly of each exporter on every report.
InitExport == ProcIdle /\ RepIdle /\ CacheIdle /\ PageIdle /\ ClassIdle /\ AggIdle /\ ExpInit /\ ModIdle /\ TaskIdle /\ WorkIdle /\ YearIdle

ExpNext == ExportYearly \/ ExportQuarterly \/ ExportMonthly \/ ExportWeekly

SpecExport == InitExport /\ [][ExpNext]_vars

\* One month of the weekly breakdown: process_issues, then the weekly exporter.
InitWeekly == WeeklyInit /\ RepIdle /\ CacheIdle /\ PageIdle /\ ClassIdle /\ AggIdle /\ ModIdle /\ TaskIdle /\ WorkIdle /\ YearIdle

WeeklyNext == FetchMonthEntries \/ GenerateWeeklyCsv

SpecWeekly == InitWeekly /\ [][WeeklyNext]_vars

\* One comparison of every two Author or Component values, and week_number
\* of every day of a month.
InitModels == ProcIdle /\ RepIdle /\ CacheIdle /\ PageIdle /\ ClassIdle /\ AggIdle /\ ExpIdle /\ ModInit /\ TaskIdle /\ WorkIdle /\ YearIdle

ModNext == CompareAuthors \/ CompareComponents \/ WeekNumberOfDay

SpecModels == InitModels /\ [][ModNext]_vars

\* One (project, month) task against every month of the tracker, with every
\* set of failing calls.
InitTask == ProcIdle /\ RepIdle /\ CacheIdle /\ PageIdle /\ ClassIdle /\ AggIdle /\ ExpIdle /\ ModIdle /\ TaskInit /\ WorkIdle /\ YearIdle

TaskNext == TaskSearch \/ TaskParse \/ TaskProcess

SpecTask == InitTask /\ [][TaskNext]_vars

\* Worker threads of one client, each making one GET of the same key, under
\* every interleaving of their steps.
InitWorkers == ProcIdle /\ RepIdle /\ PageIdle /\ ClassIdle /\ AggIdle /\ ExpIdle /\ ModIdle /\ TaskIdle /\ WorkInit /\ YearIdle

WorkNext ==
    \E w \in Workers :
        \/ CacheLookup(w)
        \/ CountHitRead(w)
        \/ CountHitStore(w)
        \/ LoadCached(w)
        \/ NetworkGet(w)
        \/ SaveOpen(w)
        \/ SaveWrite(w)
        \/ SaveClose(w)

SpecWorkers == InitWorkers /\ [][WorkNext]_vars

\* One call of get_issues_with_worklog against every tracker that reports
\* more records than it serves.
InitShortPages == ProcIdle /\ RepIdle /\ CacheIdle /\ ShortPageInit /\ ClassIdle /\ AggIdle /\ ExpIdle /\ ModIdle /\ TaskIdle /\ WorkIdle /\ YearIdle

SpecShortPages == InitShortPages /\ [][PageNext]_vars

\* The monthly tasks of a project whose issue has worklogs anywhere in the
\* year.
InitYear == ProcIdle /\ RepIdle /\ CacheIdle /\ PageIdle /\ ClassIdle /\ AggIdle /\ ExpIdle /\ ModIdle /\ TaskIdle /\ WorkIdle /\ YearInit

YearNext == FetchMonthOfYear

SpecYear == InitYear /\ [][YearNext]_vars
-----------------------------------------------------------------------------
(* What the aggregation claims speak of                                     *)

RECURSIVE SumSeq(_)
SumSeq(s) == IF s = <<>> THEN 0 ELSE Head(s) + SumSeq(Tail(s))

\* The sum of the hours of a list of entries.
TotalHours(es) == SumSeq([i \in 1..Len(es) |-> es[i].hours])

\* A worklog that counts: it passes the filter and lies in the window.
Counts(wl) ==
    /\ PassesFilter(wl, filter_author)
    /\ InWindow(wl, Window.start_date, Window.end_date)

\* The hours of the worklogs of an issue that count and satisfy Sel.
IssueHours(issue, Sel(_)) ==
    SumSeq([j \in 1..Len(issue.worklogs) |->
              IF Counts(issue.worklogs[j]) /\ Sel(issue.worklogs[j])
              THEN WorklogHours(issue.worklogs[j]) ELSE 0])

AnyWorklog(wl) == TRUE

\* The keys a claim may ask about.
ClaimKeys ==
    [project_component : {ProjectComponent(ProjectKey, c) : c \in ComponentNames},
     author : Authors, work_type : WorkTypes]

\* Whether an issue belongs to a key: its work type, and it carries the component.
IssueOfKey(issue, key) ==
    /\ issue.work_type = key.work_type
    /\ InSeq(key.project_component.component, issue.components)

\* The hours of all worklogs matching a key, and whether there is one.
MatchingHours(key) ==
    SumSeq([i \in 1..Len(issues) |->
              IF IssueOfKey(issues[i], key)
              THEN IssueHours(issues[i], LAMBDA wl : AuthorEq(wl.author, key.author))
              ELSE 0])

HasMatching(key) ==
    \E i \in 1..Len(issues) :
        /\ IssueOfKey(issues[i], key)
        /\ \E j \in 1..Len(issues[i].worklogs) :
              /\ Counts(issues[i].worklogs[j])
              /\ AuthorEq(issues[i].worklogs[j].author, key.author)

\* The returned entries whose key equals key.
EntriesOfKey(key) ==
    {i \in 1..Len(entries) : KeyEq(EntryKey(entries[i]), key)}

\* C1: for every key (project_component, author, work_type) the returned
\* entry holds the sum of the hours of exactly the worklogs that match the
\* key, pass the filter and lie in the window; a key with such a worklog has
\* an entry and a key with none has no entry.
C1_KeySums ==
    ppc = "done" =>
        \A key \in ClaimKeys :
            IF HasMatching(key)
            THEN /\ EntriesOfKey(key) # {}
                 /\ \A i \in EntriesOfKey(key) : entries[i].hours = MatchingHours(key)
            ELSE EntriesOfKey(key) = {}

\* The hours reported for a component, over all entries.
ComponentHours(c) ==
    SumSeq([i \in 1..Len(entries) |->
              IF entries[i].project_component.component = c
              THEN entries[i].hours ELSE 0])

C3_EvenSplit ==
    ppc = "done" =>
        /\ TotalHours(entries) =
              SumSeq([i \in 1..Len(issues) |-> IssueHours(issues[i], AnyWorklog)])
        /\ Len(issues) = 1 =>
              \A n \in 1..Len(issues[1].components) :
                  ComponentHours(issues[1].components[n]) * Len(issues[1].components)
                      = IssueHours(issues[1], AnyWorklog)


-----------------------------------------------------------------------------
(* What the claims about a run of generate_report speak of                  *)

\* The tasks in the order _fetch_data_parallel submits them: month by month,
\* and within a month project by project.
TaskSeq ==
    [n \in 1..NumTasks |->
        [project |-> ProjectKeys[((n - 1) % Len(ProjectKeys)) + 1],
         month |-> ((n - 1) \div Len(ProjectKeys)) + 1]]

\* The entries a task handed to the collecting loop: those it computed when
\* it ended well, none when it failed or has not run.
Returned(t) ==
    IF task_status[t] = "ok" THEN TaskEntries(world, t.project, t.month) ELSE <<>>

RECURSIVE ConcatTasks(_, _)
\* The entries returned by the tasks n.. of TaskSeq that are in S, in order.
ConcatTasks(n, S) ==
    IF n > NumTasks THEN <<>>
    ELSE (IF TaskSeq[n] \in S THEN Returned(TaskSeq[n]) ELSE <<>>) \o ConcatTasks(n + 1, S)

CountIn(x, s) == Cardinality({i \in 1..Len(s) : s[i] = x})

Range(s) == {s[i] : i \in 1..Len(s)}

\* Two lists hold the same elements, each the same number of times.
SameBag(s, t) ==
    /\ Len(s) = Len(t)
    /\ \A x \in Range(s) \cup Range(t) : CountIn(x, s) = CountIn(x, t)

AllCollected == rpc \in {"fetch", "done"} /\ completed = NumTasks

\* C4: in a breakdown report no monthly report holds two entries with equal
\* (project_component, author, work_type) keys.
C4_UniqueKeys ==
    (rpc = "done" /\ cause = "exported" /\ PreserveMonths(report_type)) =>
        \A r \in 1..Len(report) :
            \A i, j \in 1..Len(report[r].entries) :
                i # j => ~KeyEq(EntryKey(report[r].entries[i]),
                                EntryKey(report[r].entries[j]))

\* C5: once every task has been collected, entries_by_month[m] holds exactly
\* the entries returned by the tasks of month m, each once, in whatever order
\* the tasks completed; in flat mode the list holds the entries of every task
\* exactly once.
C5_CollectedByMonth ==
    AllCollected =>
        IF PreserveMonths(report_type)
        THEN /\ \A m \in Months :
                   SameBag(entries_by_month[m],
                           ConcatTasks(1, {t \in Tasks : t.month = m}))
             /\ all_entries = <<>>
        ELSE /\ SameBag(all_entries, ConcatTasks(1, Tasks))
             /\ \A m \in Months : entries_by_month[m] = <<>>

\* Months are preserved, every task ended well, and in month 1 the task of
\* the second project completed before the task of the first.
C5_Witness ==
    /\ AllCollected
    /\ PreserveMonths(report_type)
    /\ world = "mixed"
    /\ \A t \in Tasks : task_status[t] = "ok"
    /\ Len(entries_by_month[1]) > 1
    /\ entries_by_month[1][1].project_component.project = "P2"
    /\ entries_by_month[2] # <<>>

RECURSIVE ConcatMonths(_)
\* The lists of the months m.., one after the other.
ConcatMonths(m) ==
    IF m > MaxMonth THEN <<>> ELSE entries_by_month[m] \o ConcatMonths(m + 1)

\* The entries the collecting loop holds.
Collected == IF PreserveMonths(report_type) THEN ConcatMonths(1) ELSE all_entries

\* The hours the tasks that ended well computed.
HoursOfGoodTasks ==
    SumSeq([n \in 1..NumTasks |->
              IF task_status[TaskSeq[n]] = "ok"
              THEN TotalHours(TaskEntries(world, TaskSeq[n].project, TaskSeq[n].month))
              ELSE 0])

\* C6: a failed task does not abort the run.  When the run has ended after
\* the fetch phase every task has been run and collected, a failed task has
\* contributed no entry, the entries of the others are all there, and a
\* report is exported exactly if a task that ended well had entries; the
\* report holds the hours of those tasks.
C6_FailureIsolated ==
    (rpc = "done" /\ cause \in {"no_data", "exported"}) =>
        /\ completed = NumTasks
        /\ \A t \in Tasks : task_status[t] # "pending"
        /\ TotalHours(Collected) = HoursOfGoodTasks
        /\ \A t \in Tasks :
              (task_status[t] = "failed" /\ PreserveMonths(report_type)) =>
                  \A i \in 1..Len(entries_by_month[t.month]) :
                      entries_by_month[t.month][i].project_component.project # t.project
        /\ (cause = "exported") <=>
              (\E t \in Tasks : task_status[t] = "ok"
                                /\ TaskEntries(world, t.project, t.month) # <<>>)
        /\ (cause = "exported") =>
              /\ result # "None"
              /\ SumSeq([r \in 1..Len(report) |-> TotalHours(report[r].entries)])
                     = HoursOfGoodTasks
        /\ (cause = "no_data") => (result = "None" /\ report = <<>>)

\* A report was exported although the task of P1 for month 1 failed; it
\* holds the entries of P2 for month 1.
C6_Witness ==
    /\ rpc = "done"
    /\ cause = "exported"
    /\ task_status[[project |-> "P1", month |-> 1]] = "failed"
    /\ task_status[[project |-> "P2", month |-> 1]] = "ok"
    /\ \E r \in 1..Len(report) : report[r].entries # <<>>

\* C7: an HTTP 401 or 403 answer at any point of a run is fatal: the run
\* returns no report.
C7_AuthFatal ==
    (rpc = "done" /\ auth_seen) => (result = "None" /\ report = <<>>)

\* C8: what generate_report returns for a run that finds no worklogs differs
\* from what it returns for a run whose connection test fails.
C8_Distinguishable ==
    (rpc = "done" /\ prev_run # NoRun
       /\ {prev_run.cause, cause} = {"connection_failed", "no_data"})
        => prev_run.result # result


-----------------------------------------------------------------------------
(* Claims about the response cache and the pagination loop                 *)

CeilDiv(a, b) == (a + b - 1) \div b

Max(a, b) == IF a >= b THEN a ELSE b

\* What the loop of get_issues_with_worklog did so far: each page request
\* asked for the records from the number already fetched on.
StartAtIsFetched ==
    \A i \in 1..Len(page_requests) :
        page_requests[i].start_at = page_requests[i].fetched_before

\* All records of the tracker, in page order.
AllRecords == [i \in 1..server.total |-> i]

\* C10 as stated: the call issues exactly ceil(T/P) page requests, each with
\* startAt equal to the number of records already fetched, and returns all
\* T records in page order.
C10_CeilRequests ==
    /\ StartAtIsFetched
    /\ pg_pc = "done" =>
          /\ Len(page_requests) = CeilDiv(server.total, server.page)
          /\ fetched = AllRecords

\* C10, for every total: the call issues exactly max(1, ceil(T/P)) page
\* requests (one request even when the tracker reports no record), each with
\* startAt equal to the number of records already fetched, and returns all
\* T records in page order.
C10_AtLeastOneRequest ==
    /\ StartAtIsFetched
    /\ Len(page_requests) <= Max(1, CeilDiv(server.total, server.page))
    /\ pg_pc = "done" =>
          /\ Len(page_requests) = Max(1, CeilDiv(server.total, server.page))
          /\ fetched = AllRecords

\* The tracker reports 250 records in pages of 100: three requests, at 0,
\* 100 and 200, and 250 records.
C10_Witness ==
    /\ pg_pc = "done"
    /\ server = [total |-> 250, page |-> 100, held |-> 250]
    /\ Len(page_requests) = 3
    /\ page_requests[3].start_at = 200
    /\ Len(fetched) = 250

-----------------------------------------------------------------------------
(* Claims about the classification of an issue                             *)

\* The string a custom field holds as its value: the string itself, or the
\* string under the 'value' key of a dictionary; nothing otherwise.
FieldText(v) ==
    IF v.kind = "str" \/ (v.kind = "dict" /\ v.value = "str") THEN v.text ELSE <<>>

NamesMaintenance(v) == Contains("maintenance", Lower(FieldText(v)))

NamesDevelopment(v) == Contains("development", Lower(FieldText(v)))

\* The custom field n is the first, in the fixed order, whose value names
\* maintenance or development.
FirstNaming(f, n) ==
    /\ NamesMaintenance(f[CustomFieldOrder[n]]) \/ NamesDevelopment(f[CustomFieldOrder[n]])
    /\ \A k \in 1..(n - 1) :
          /\ ~NamesMaintenance(f[CustomFieldOrder[k]])
          /\ ~NamesDevelopment(f[CustomFieldOrder[k]])

\* A dictionary whose 'value' is null or a dictionary.
Malformed(v) == v.kind = "dict" /\ v.value \in {"null", "dict"}

\* C11: the first custom field, in the order customfield_10082,
\* customfield_10048, customfield_10081, whose value names maintenance or
\* development decides: Maintenance if it names maintenance, Development if
\* it names development only, whatever the issue type and the labels are.
C11_FirstMatchWins ==
    cpc = "done" =>
        \A n \in 1..Len(CustomFieldOrder) :
            FirstNaming(issue_fields, n) =>
                categorized = IF NamesMaintenance(issue_fields[CustomFieldOrder[n]])
                              THEN "Maintenance" ELSE "Development"

\* The same when no custom field before the deciding one is malformed.
FirstMatchWinsWellFormed ==
    cpc = "done" =>
        \A n \in 1..Len(CustomFieldOrder) :
            (/\ FirstNaming(issue_fields, n)
             /\ \A k \in 1..(n - 1) : ~Malformed(issue_fields[CustomFieldOrder[k]])) =>
                categorized = IF NamesMaintenance(issue_fields[CustomFieldOrder[n]])
                              THEN "Maintenance" ELSE "Development"

\* C12: _categorize_work_type never raises and returns Development or
\* Maintenance for every payload; a malformed custom field is passed over.
C12_NeverRaises ==
    cpc = "done" => categorized \in {"Development", "Maintenance"}

-----------------------------------------------------------------------------
(* Claims about aggregate_entries                                          *)

\* The input entries whose key equals the key of the entry e.
InputsOfKey(e) ==
    {n \in 1..Len(agg_input) : KeyEq(EntryKey(agg_input[n]), EntryKey(e))}

\* What the claim requires of the output for the key of the input entry e:
\* exactly one entry, holding the sum of the hours and the union of the
\* issues of the input entries with that key, no issue twice.
OneEntryWithSums(e) ==
    /\ Cardinality({i \in 1..Len(agg_output) :
                       KeyEq(EntryKey(agg_output[i]), EntryKey(e))}) = 1
    /\ \A i \in 1..Len(agg_output) :
          KeyEq(EntryKey(agg_output[i]), EntryKey(e)) =>
              /\ agg_output[i].hours =
                     SumSeq([n \in 1..Len(agg_input) |->
                                IF n \in InputsOfKey(e) THEN agg_input[n].hours ELSE 0])
              /\ Range(agg_output[i].issues) =
                     UNION {Range(agg_input[n].issues) : n \in InputsOfKey(e)}
              /\ Cardinality(Range(agg_output[i].issues)) = Len(agg_output[i].issues)

\* C13: aggregate_entries returns exactly one entry per distinct key of its
\* input, holding the sum of the hours of the input entries with the key and
\* the union of their issue lists without duplicates; and no other entry.
C13_OnePerKey ==
    apc = "done" =>
        /\ \A n \in 1..Len(agg_input) : OneEntryWithSums(agg_input[n])
        /\ \A i \in 1..Len(agg_output) : InputsOfKey(agg_output[i]) # {}

\* Equal authors of the input hash alike.
ConsistentAuthors ==
    \A m, n \in 1..Len(agg_input) :
        AuthorEq(agg_input[m].author, agg_input[n].author) =>
            AuthorHash(agg_input[m].author) = AuthorHash(agg_input[n].author)

\* The same for inputs whose equal authors hash alike.
OnePerKeyConsistentAuthors ==
    (apc = "done" /\ ConsistentAuthors) =>
        /\ \A n \in 1..Len(agg_input) : OneEntryWithSums(agg_input[n])
        /\ \A i \in 1..Len(agg_output) : InputsOfKey(agg_output[i]) # {}

-----------------------------------------------------------------------------
(* Claims about the order of the input of process_issues                   *)

\* The orders a list of n elements can be put in.
Orders(n) ==
    {p \in [1..n -> 1..n] : \A i, j \in 1..n : p[i] = p[j] => i = j}

\* Two results hold the same keys with the same hours: each entry of one has
\* an entry of the other in the same slot of the dict, with equal hours.
SameTotals(a, b) ==
    /\ Len(a) = Len(b)
    /\ \A i \in 1..Len(a) : \E j \in 1..Len(b) :
          /\ SameDictKey(EntryKey(a[i]), EntryKey(b[j]))
          /\ a[i].hours = b[j].hours
    /\ \A j \in 1..Len(b) : \E i \in 1..Len(a) :
          /\ SameDictKey(EntryKey(a[i]), EntryKey(b[j]))
          /\ a[i].hours = b[j].hours

-----------------------------------------------------------------------------
(* The exporters                                                           *)

\* The report without the entries of inactive authors.
WithoutInactive(rep) ==
    [m \in 1..Len(rep) |->
        [rep[m] EXCEPT !.entries = SelectSeq(@, LAMBDA e : e.author.active)]]

\* The report with every author marked active.
AllActive(rep) ==
    [m \in 1..Len(rep) |->
        [rep[m] EXCEPT !.entries =
            [i \in 1..Len(@) |-> [@[i] EXCEPT !.author.active = TRUE]]]]

\* The entries of inactive authors an exporter would file: those of a
\* Development or Maintenance issue.
InactiveTracked(rep) ==
    {p \in Positions(rep) : ~EntryAt(rep, p).author.active /\ IsTracked(EntryAt(rep, p))}

\* Some cell of some row of the rows reads text.
HasCell(rows, text) ==
    \E r \in 1..Len(rows) : \E c \in 1..Len(rows[r]) : rows[r][c] = text

\* C15: with filter_active_only set, the output of each of the four
\* exporters is the output for the same report without the entries of
\* inactive authors, and names no inactive author in a row, a column or a
\* sheet; with the flag cleared the output is the one the report would give
\* were all its authors active, and the inactive authors are in it.
C15_InactiveLeftOut ==
    xpc = "done" =>
        /\ filter_active_only =>
              /\ csv = ExportCsv(exporter, WithoutInactive(exp_report), FALSE)
              /\ \A p \in Positions(exp_report) :
                    LET a == EntryAt(exp_report, p).author
                    IN  ~a.active =>
                            /\ ~InSeq(Title(a.display_name), sheets)
                            /\ \A q \in 1..4 :
                                  ~HasCell(csv, Title(a.display_name) \o " Q" \o ToString(q))
                            /\ ~HasCell(csv, Title(a.display_name))
        /\ ~filter_active_only =>
              /\ csv = ExportCsv(exporter, AllActive(exp_report), TRUE)
              /\ \A p \in InactiveTracked(exp_report) :
                    InSeq(Title(EntryAt(exp_report, p).author.display_name), sheets)

\* An export with the filter set of a report that holds hours of an active
\* and of an inactive author, the latter under a tracked work type.
C15_Witness ==
    /\ xpc = "done"
    /\ filter_active_only
    /\ \E p \in InactiveTracked(exp_report) : EntryAt(exp_report, p).hours > 0
    /\ \E p \in Included(exp_report, TRUE) : EntryAt(exp_report, p).hours > 0

\* A header row of a table: the row that names the columns.
IsHeader(row) == row # <<>> /\ row[1] \in {"Project", "Team Member"}

IsTotal(row) == row # <<>> /\ row[1] = "TOTAL"

\* The header rows of the rows written, in order.
HeaderRows(rows) ==
    SelectSeq([i \in 1..Len(rows) |-> i], LAMBDA i : IsHeader(rows[i]))

\* The last row of the table section under the header at h: the section
\* runs up to the next blank row, marker row or header, or to the end.
SectionEnd(rows, h) ==
    LET Stops(j) == rows[j] = <<>> \/ IsHeader(rows[j])
                    \/ rows[j][1] \in {"DEVELOPMENT", "MAINTENANCE"}
    IN  CHOOSE j \in h..Len(rows) :
            /\ \A k \in (h + 1)..j : ~Stops(k)
            /\ j = Len(rows) \/ Stops(j + 1)

\* The hours of an author under a work type, over all components, summed
\* from the entries the exporter takes.
AuthorHours(rep, flag, wt, a, months) ==
    LET S == {p \in Included(rep, flag) :
                 /\ EntryAt(rep, p).work_type = wt
                 /\ SameAuthorKey(EntryAt(rep, p).author, a)
                 /\ MonthAt(rep, p) \in months}
    IN  SumOver([p \in S |-> EntryAt(rep, p).hours], S)

\* The TOTAL row of the section of a work type: the sum of each column.
ColumnSums(x, rep, flag, wt) ==
    LET authors == SortedAuthors(rep, flag)
    IN  IF x = "yearly"
        THEN <<"TOTAL", "">> \o
             [i \in 1..Len(authors) |-> Cell(AuthorHours(rep, flag, wt, authors[i], 1..12))]
        ELSE <<"TOTAL", "">> \o
             [c \in 1..(4 * Len(authors)) |->
                 Cell(AuthorHours(rep, flag, wt, authors[((c - 1) \div 4) + 1],
                                  {m \in 1..12 : GetQuarter(m) = ((c - 1) % 4) + 1}))]

\* C16: in the CSV of every exporter each table section ends with a TOTAL
\* row, and in the yearly and the quarterly CSV the TOTAL row of a section
\* holds the sum of each column over the data rows of the section.
C16_TotalRowEndsSection ==
    xpc = "done" =>
        LET hs == HeaderRows(csv)
        IN  /\ Len(hs) >= 1
            /\ \A n \in 1..Len(hs) :
                  /\ IsTotal(csv[SectionEnd(csv, hs[n])])
                  /\ exporter \in {"yearly", "quarterly"} =>
                        csv[SectionEnd(csv, hs[n])] =
                            ColumnSums(exporter, exp_report, filter_active_only,
                                       TrackedWorkTypes[n])

\* The same for the two exporters that write section markers.
TotalRowEndsSectionYearlyQuarterly ==
    exporter \in {"yearly", "quarterly"} => C16_TotalRowEndsSection

\* The rows of the CSV that hold hours: the data rows and the TOTAL rows.
HourRows(rows) ==
    {r \in 1..Len(rows) :
        /\ rows[r] # <<>>
        /\ ~IsHeader(rows[r])
        /\ Len(rows[r]) > 1}

\* C17: no data cell and no TOTAL cell of an exported CSV reads "0.0":
\* hours that are zero, absent or round to zero at one decimal place are
\* written as the empty string.
C17_NoZeroCell ==
    xpc = "done" =>
        \A r \in HourRows(csv) : \A c \in 1..Len(csv[r]) : csv[r][c] # "0.0"

\* The same for reports in which no entry holds less than 0.05 hours.
NoZeroCellFromTenths ==
    (\A p \in Positions(exp_report) :
        EntryAt(exp_report, p).hours = 0 \/ EntryAt(exp_report, p).hours >= 180)
    => C17_NoZeroCell

\* The tenths of an hour a printed cell reads, as float(text) gives them; an
\* empty cell counts as zero.
ParseCell(text) ==
    IF text = "" THEN 0
    ELSE CHOOSE t \in 0..MaxTenths : ToString(t \div 10) \o "." \o ToString(t % 10) = text

\* The rows between the header at h and the TOTAL row at t.
DataRows(h, t) == (h + 1)..(t - 1)

\* The TOTAL rows of the yearly CSV, each with the header of its section.
YearlyTotals(rows) ==
    {ht \in (1..Len(rows)) \X (1..Len(rows)) :
        /\ IsHeader(rows[ht[1]])
        /\ ht[2] > ht[1]
        /\ IsTotal(rows[ht[2]])
        /\ \A k \in DataRows(ht[1], ht[2]) : rows[k] # <<>> /\ ~IsTotal(rows[k])}

\* C18: in an exported yearly CSV each value of a TOTAL row equals the sum
\* of the values printed in the data rows of the same column of its section.
C18_TotalIsSumOfPrinted ==
    (xpc = "done" /\ exporter = "yearly") =>
        \A ht \in YearlyTotals(csv) :
            \A c \in 3..Len(csv[ht[2]]) :
                ParseCell(csv[ht[2]][c]) =
                    SumOver([k \in DataRows(ht[1], ht[2]) |-> ParseCell(csv[k][c])],
                            DataRows(ht[1], ht[2]))

\* The same for reports whose entries all hold whole tenths of an hour.
TotalIsSumOfPrintedTenths ==
    (\A p \in Positions(exp_report) : EntryAt(exp_report, p).hours % 360 = 0)
    => C18_TotalIsSumOfPrinted

\* C19: in the yearly CSV the rows of each section come in the order header
\* row, data rows, one blank row, TOTAL row: the row before every TOTAL row
\* is blank, and the rows between the header and that blank row are the
\* data rows.
C19_BlankBeforeTotal ==
    (xpc = "done" /\ exporter = "yearly") =>
        /\ \E t \in 1..Len(csv) : IsTotal(csv[t])
        /\ \A t \in 1..Len(csv) :
              IsTotal(csv[t]) =>
                  /\ t > 2
                  /\ csv[t - 1] = <<>>
                  /\ \E h \in 1..(t - 2) :
                        /\ IsHeader(csv[h])
                        /\ \A k \in (h + 1)..(t - 2) :
                              csv[k] # <<>> /\ ~IsHeader(csv[k]) /\ ~IsTotal(csv[k])

\* What export_yearly writes instead: the TOTAL row directly under the data
\* rows of its section, and one blank row between the two sections.
TotalDirectlyUnderData ==
    (xpc = "done" /\ exporter = "yearly") =>
        \A t \in 1..Len(csv) :
            IsTotal(csv[t]) =>
                \E h \in 1..(t - 1) : IsHeader(csv[h]) /\ SectionEnd(csv, h) = t

\* The keys (work type, project component, author) of the entries of a report.
CellKeys(rep) ==
    {<<EntryAt(rep, p).work_type, EntryAt(rep, p).project_component, EntryAt(rep, p).author>> :
        p \in Positions(rep)}

WorklogSeconds(a, week) ==
    LET wls == issues[1].worklogs
        S == {j \in 1..Len(wls) :
                 wls[j].author = a /\ WeekNumber(wls[j].started) = week}
    IN  SumOver([j \in S |-> wls[j].time_spent_seconds], S)

\* C21: in the weekly breakdown the pipeline generates, every entry has
\* week_hours that sum to its hours, and the row of an author reads, in the
\* column of the month and week min(((d-1)//7)+1, 5), the hours of the
\* author's worklogs started on days d of that week.
C21_WeekColumns ==
    xpc = "done" =>
        /\ \A i \in 1..Len(entries) :
              /\ DOMAIN entries[i].week_hours # {}
              /\ SumOver(entries[i].week_hours, DOMAIN entries[i].week_hours)
                    = entries[i].hours
        /\ \A a \in {JaneSmith, JohnDoe} : \A r \in 1..Len(csv) :
              (Len(csv[r]) > 4 /\ csv[r][1] = Title(a.display_name)) =>
                 \A week \in 1..5 :
                    csv[r][4 + (WeeklyWindow.month - 1) * 5 + week]
                       = Cell(WorklogSeconds(a, week))

\* What the pipeline writes instead: no entry has week_hours, and the row of
\* an author reads all the hours of the month in the column of week 1.
AllHoursInWeekOne ==
    xpc = "done" =>
        /\ \A i \in 1..Len(entries) : DOMAIN entries[i].week_hours = {}
        /\ \A a \in {JaneSmith, JohnDoe} : \A r \in 1..Len(csv) :
              (Len(csv[r]) > 4 /\ csv[r][1] = Title(a.display_name)) =>
                 \A week \in 1..5 :
                    csv[r][4 + (WeeklyWindow.month - 1) * 5 + week]
                       = IF week = 1
                         THEN Cell(SumOver([w \in 1..5 |-> WorklogSeconds(a, w)], 1..5))
                         ELSE ""

\* ---- C22 ----

\* C22: two Author values that are equal hash alike, with or without an
\* account_id on either side.
C22_EqualAuthorsHashAlike ==
    (mpc = "done" /\ outcome.kind = "authors" /\ outcome.eq)
        => outcome.hash_a = outcome.hash_b

\* Where the hash does agree with equality: both sides have an account_id,
\* or neither has.
EqualAuthorsHashAlikeSameShape ==
    (/\ mpc = "done" /\ outcome.kind = "authors" /\ outcome.eq
     /\ (operands.a.account_id = NoAccountId) = (operands.b.account_id = NoAccountId))
        => outcome.hash_a = outcome.hash_b

\* ---- C23 ----

\* C23: two Component values are equal if and only if their names are equal;
\* with equal names they hash alike and make one report row.
C23_ComponentEqualByName ==
    (mpc = "done" /\ outcome.kind = "components") =>
        /\ outcome.eq = (operands.a.name = operands.b.name)
        /\ operands.a.name = operands.b.name =>
              (outcome.hash_a = outcome.hash_b /\ outcome.same_row)

\* What holds of Component: equal values have equal names, values of one name
\* hash alike and make one row, and they are equal only with the same id and
\* description.
ComponentRowsByName ==
    (mpc = "done" /\ outcome.kind = "components") =>
        /\ outcome.eq => operands.a.name = operands.b.name
        /\ (operands.a.name = operands.b.name)
              = (outcome.hash_a = outcome.hash_b)
        /\ (operands.a.name = operands.b.name) = outcome.same_row
        /\ outcome.eq = (operands.a = operands.b)

\* ---- C24 ----

\* The week of the days of a month, as the tests list them.
WeekTable ==
    [d \in Days |-> IF d <= 7 THEN 1 ELSE IF d <= 14 THEN 2
                    ELSE IF d <= 21 THEN 3 ELSE IF d <= 28 THEN 4 ELSE 5]

\* C24: for every day d in 1..31, week_number is min(((d-1)//7)+1, 5), lies
\* in 1..5, and is 1 for days 1 to 7, 2 for day 8, 4 for day 28 and 5 for
\* days 29 to 31.
C24_WeekNumber ==
    (mpc = "done" /\ outcome.kind = "day") =>
        /\ outcome.week = Min(((operands.day - 1) \div 7) + 1, 5)
        /\ outcome.week \in 1..5
        /\ outcome.week = WeekTable[operands.day]

\* week_number was taken of a day after the 28th.
C24_Witness ==
    mpc = "done" /\ outcome.kind = "day" /\ operands.day = 31 /\ outcome.week = 5

\* ---- C25 ----

\* The complete aggregation of the month: every worklog the tracker holds,
\* each author with the active flag the tracker has for the user.
CompleteContribution ==
    ProcessIssues(
        [i \in 1..Len(tracker_issues) |->
            [key |-> tracker_issues[i].key,
             components |-> tracker_issues[i].components,
             work_type |-> "Development",
             worklogs |->
                [j \in 1..Len(tracker_issues[i].all_worklogs) |->
                    LET wl == tracker_issues[i].all_worklogs[j]
                        user == CHOOSE u \in TrackerUsers :
                                    u.account_id = wl.author.accountId
                    IN  [author |-> user, started |-> wl.started,
                         time_spent_seconds |-> wl.timeSpentSeconds]]]],
        ProjectKey, WeeklyWindow.start_date, WeeklyWindow.end_date, NoFilter)

\* C25: a finished task contributes the complete aggregation of its data
\* when no call it made failed, and nothing when one did.
C25_CompleteOrNothing ==
    tpc = "done" =>
        contribution = IF failed_calls = {} THEN CompleteContribution ELSE <<>>

\* What holds: a task whose calls all succeeded contributes the complete
\* aggregation, and one whose search failed contributes nothing.
CompleteOrNothingOnSearch ==
    tpc = "done" =>
        /\ failed_calls = {} => contribution = CompleteContribution
        /\ "search" \in failed_calls => contribution = <<>>

\* ---- C26 ----

AllWorkersDone == \A w \in Workers : wpc[w] = "done"

\* C26: under every interleaving, a GET returns the body the server answers
\* the key with, whatever another worker was writing when it read, and when
\* every worker is done and one of them wrote the file, the file holds the
\* complete text of that body.
C26_ReadersGetTheBody ==
    /\ \A w \in Workers : wpc[w] = "done" => wreturned[w] = server_body
    /\ (AllWorkersDone /\ \E w \in Workers : wnetwork[w])
          => cache_text = [exists |-> TRUE, cells |-> DumpText(server_body)]

\* Every worker is done, after one read the file while another was writing
\* it and two had it open for writing at once.
C26_Witness ==
    /\ AllWorkersDone
    /\ {"read_mid_write", "two_writers"} \subseteq wevents
    /\ \A w \in Workers : wreturned[w] = server_body

\* ---- C27 ----

\* C27: when every worker is done, is_using_cache() is true if and only if
\* some GET was answered from the cache without a network call.
C27_FromCacheIffAnswered ==
    AllWorkersDone =>
        ((cache_hit_count > 0) = (\E w \in Workers : ~wnetwork[w]))

\* What holds: a GET answered from the cache makes is_using_cache() true,
\* lost updates of the counter or not; and is_using_cache() is true exactly
\* when some worker found a file for the key.
FromCacheWhenAnswered ==
    AllWorkersDone =>
        /\ (\E w \in Workers : ~wnetwork[w]) => cache_hit_count > 0
        /\ cache_hit_count <= MaxWorkers

\* ---- C28 ----

\* C28: the pagination loop terminates, whatever the tracker serves: no pass
\* asks again for the page an earlier pass asked for (the answer to the same
\* request is the same, so a pass that leaves start_at where it was without
\* ending the loop is repeated for ever).
C28_EveryPassAdvances ==
    \A i, j \in 1..Len(page_requests) :
        i < j => page_requests[i].start_at < page_requests[j].start_at

\* Against a tracker that serves fewer records than it reports the loop is
\* never left: from the first empty page on every pass asks for the same
\* page.
ShortServerNeverDone ==
    /\ pg_pc = "loop"
    /\ \A i \in 1..Len(page_requests) :
          page_requests[i].start_at >= server.held
              => \A j \in i..Len(page_requests) :
                    page_requests[j].start_at = page_requests[i].start_at

\* ---- C29 ----

\* The seconds the entries of month m hold for the component.
MonthSeconds(m, component) ==
    LET es == year_entries[m]
        S == {i \in 1..Len(es) : es[i].project_component.component = component}
    IN  SumOver([i \in S |-> es[i].hours], S)

\* The j-th worklog of the issue is among those counted in month m for the
\* component (the n-th worklog has BaseSeconds * 2^(n-1) seconds).
CountedIn(j, m, component) ==
    ((MonthSeconds(m, component) \div BaseSeconds) \div Pow2(j - 1)) % 2 = 1

YearDone == next_month = MaxMonth + 1

\* The windows [start, end] of get_month_range an instant lies in.
WindowsOf(t) == {m \in Months : MonthStart(m) <= t /\ t <= MonthEnd(m)}

\* C29: the windows of the months are pairwise disjoint and cover the year,
\* and once every monthly task has run, each worklog of the year is counted
\* in exactly one month, once per component of its issue.
C29_ExactlyOneMonth ==
    YearDone =>
        /\ \A t \in YearInstants : Cardinality(WindowsOf(t)) = 1
        /\ \A j \in 1..Len(year_issue.worklogs) :
           \A k \in 1..Len(year_issue.components) :
              Cardinality({m \in Months : CountedIn(j, m, year_issue.components[k])}) = 1

\* What holds: no instant lies in two windows and no worklog is counted
\* twice; a worklog is counted, in the month of its date, unless it started
\* after 23:59:59 of the last day of a month.
AtMostOneMonth ==
    /\ \A t \in YearInstants :
          WindowsOf(t) = IF t % TicksPerMonth = TicksPerMonth - 1 THEN {}
                         ELSE {MonthOf(t)}
    /\ YearDone =>
          \A j \in 1..Len(year_issue.worklogs) :
          \A k \in 1..Len(year_issue.components) :
             {m \in Months : CountedIn(j, m, year_issue.components[k])}
                = WindowsOf(year_issue.worklogs[j].started)

\* ---- C30 ----

\* The hours of the entries of a list, in order.
HoursOf(es) == [i \in 1..Len(es) |-> es[i].hours]

\* C30: aggregate_entries leaves the entries of its input as they were, and
\* a second call on the same list returns the hours of the first.
C30_InputUnchanged ==
    apc = "done" =>
        /\ agg_after = agg_input
        /\ HoursOf(AggregateEntries(agg_after)) = HoursOf(agg_output)

\* What holds: the input is left as it was when no two of its entries fall
\* into one slot of the dict; otherwise the first entry of a slot holds the
\* merged hours after the call.
InputUnchangedWithoutMerge ==
    apc = "done" =>
        /\ Len(agg_output) = Len(agg_input) => agg_after = agg_input
        /\ \A i \in 1..Len(agg_output) : \E n \in 1..Len(agg_after) :
              agg_after[n] = agg_output[i]
=============================================================================
